---- MODULE Spec2Model ----
(***************************************************************************)
(* Token lifecycle of the web chat client: the auth store                  *)
(* (src/src/store/auth-store.ts), the axios gateway with its refresh queue *)
(* (src/src/api/instance.ts) and the router guard.                         *)
(*                                                                         *)
(* JavaScript runs one task at a time.  A step of the model is either a    *)
(* macrotask (a network response, a user action, the clock) or the         *)
(* continuation of an await whose promise has settled (a microtask).       *)
(* Macrotasks are taken only when no continuation is pending.              *)
(*                                                                         *)
(* null is modelled as 0 for tokens and timestamps (both are falsy in the  *)
(* source's checks).  A token is the number of the token pair the server   *)
(* issued: 1 is the pair found in storage at start-up.                     *)
(***************************************************************************)
EXTENDS Integers, Sequences, FiniteSets, TLC

\* ---------------------------------------------------------------- bounds
NReq == 3             \* axios requests issued through DefaultAPIInstance
MaxTicks == 2         \* clock advances of one buffer length
MaxIssued == 3        \* token pairs the server issues (storage, refresh, login)
MaxReads == 3         \* reads of the response body that deliver data
MaxHydrations == 3    \* hydrateHistoryMessages calls of one widget
MaxUrls == 3          \* object URLs one widget creates
MaxMessages == 2      \* streamed messages with a protected attachment
MaxWireReads == 3     \* reads that deliver the text of one response body

\* ------------------------------------------------------------- constants
TOKEN_EXPIRY_BUFFER_MS == 5000

Null == 0
T0 == 3 * TOKEN_EXPIRY_BUFFER_MS      \* Date.now() at start-up
\* expires_in / refresh_expires_in of a TokenResponse, in seconds
AccessLifetimeS == 3 * (TOKEN_EXPIRY_BUFFER_MS \div 1000)
RefreshLifetimeS == 4 * (TOKEN_EXPIRY_BUFFER_MS \div 1000)

Reqs == 1..NReq

Max(a, b) == IF a >= b THEN a ELSE b

VARIABLES
  now,        \* Date.now()
  ticks,      \* clock advances so far
  store,      \* the auth store's refs, localStorage and the axios default header
  init,       \* initializePromise and the restore it runs
  refresh,    \* refreshPromise and the /auth/refresh call behind it
  issued,     \* newest token pair issued by the server
  gateway,    \* isRefreshing and the queue of setupApiInterceptors
  reqs,       \* the axios requests
  fetcher,    \* one authorizedFetch call
  guard,      \* one router navigation
  login,      \* one login() call
  logout,     \* one logout() call
  events,     \* auth:login / auth:logout events dispatched
  lastOp,     \* what the last step did
  chat,       \* one sendStreamingMessage call of the chat widget
  persisted,  \* the token response last persisted, and when
  widget,     \* the history and the object URLs of the chat widget
  wire        \* the text of a response body and the reads that deliver it

vars == <<now, ticks, store, init, refresh, issued, gateway, reqs, fetcher,
          guard, login, logout, events, lastOp, chat, persisted, widget, wire>>

\* ----------------------------------------------------------- auth store

hasValidAccessToken(s, t) ==
  IF s.accessTokenRef = Null \/ s.accessTokenExpiresAt = Null THEN FALSE
  ELSE s.accessTokenExpiresAt - t > TOKEN_EXPIRY_BUFFER_MS

hasValidRefreshToken(s, t) ==
  IF s.refreshTokenRef = Null \/ s.refreshTokenExpiresAt = Null THEN FALSE
  ELSE s.refreshTokenExpiresAt - t > TOKEN_EXPIRY_BUFFER_MS

updateAuthenticationState(s, t) ==
  [s EXCEPT !.sessionStatus =
     IF hasValidAccessToken(s, t) \/ hasValidRefreshToken(s, t)
     THEN "authenticated" ELSE "anonymous"]

\* persistTokens() without its closing updateAuthenticationState()
persistTokensNoUpdate(s, tokens, t) ==
  LET accessExpiryMs == Max(tokens.expires_in * 1000 - TOKEN_EXPIRY_BUFFER_MS,
                            TOKEN_EXPIRY_BUFFER_MS)
      refreshExpiryMs == Max(tokens.refresh_expires_in * 1000 - TOKEN_EXPIRY_BUFFER_MS,
                             TOKEN_EXPIRY_BUFFER_MS)
  IN [s EXCEPT !.accessTokenRef = tokens.access_token,
               !.refreshTokenRef = tokens.refresh_token,
               !.accessTokenExpiresAt = t + accessExpiryMs,
               !.refreshTokenExpiresAt = t + refreshExpiryMs,
               !.lsAccessToken = tokens.access_token,
               !.lsRefreshToken = tokens.refresh_token,
               !.lsAccessTokenExpiresAt = t + accessExpiryMs,
               !.lsRefreshTokenExpiresAt = t + refreshExpiryMs,
               !.defaultAuthorization = tokens.access_token]

\* tokens = [access_token, refresh_token, expires_in, refresh_expires_in]
persistTokens(s, tokens, t) ==
  LET accessExpiryMs == Max(tokens.expires_in * 1000 - TOKEN_EXPIRY_BUFFER_MS,
                            TOKEN_EXPIRY_BUFFER_MS)
      refreshExpiryMs == Max(tokens.refresh_expires_in * 1000 - TOKEN_EXPIRY_BUFFER_MS,
                             TOKEN_EXPIRY_BUFFER_MS)
      s1 == [s EXCEPT !.accessTokenRef = tokens.access_token,
                      !.refreshTokenRef = tokens.refresh_token,
                      !.accessTokenExpiresAt = t + accessExpiryMs,
                      !.refreshTokenExpiresAt = t + refreshExpiryMs,
                      !.lsAccessToken = tokens.access_token,
                      !.lsRefreshToken = tokens.refresh_token,
                      !.lsAccessTokenExpiresAt = t + accessExpiryMs,
                      !.lsRefreshTokenExpiresAt = t + refreshExpiryMs,
                      !.defaultAuthorization = tokens.access_token]
  IN updateAuthenticationState(s1, t)

\* clearPersistence() without the localStorage.removeItem calls
clearPersistenceKeepStorage(s, t) ==
  updateAuthenticationState(
    [s EXCEPT !.accessTokenRef = Null,
              !.refreshTokenRef = Null,
              !.accessTokenExpiresAt = Null,
              !.refreshTokenExpiresAt = Null,
              !.profile = FALSE,
              !.defaultAuthorization = Null], t)

clearPersistence(s, t) ==
  updateAuthenticationState(
    [s EXCEPT !.accessTokenRef = Null,
              !.refreshTokenRef = Null,
              !.accessTokenExpiresAt = Null,
              !.refreshTokenExpiresAt = Null,
              !.profile = FALSE,
              !.lsAccessToken = Null,
              !.lsRefreshToken = Null,
              !.lsAccessTokenExpiresAt = Null,
              !.lsRefreshTokenExpiresAt = Null,
              !.defaultAuthorization = Null], t)

\* forceLogout without its event (the event is counted by the caller's step)
forceLogout(s, t) == [clearPersistence(s, t) EXCEPT !.isInitialized = TRUE]

\* the getter hasSession
hasSession(s, t) ==
  \/ s.sessionStatus = "authenticated"
  \/ hasValidAccessToken(s, t)
  \/ hasValidRefreshToken(s, t)
  \/ s.lsAccessToken # Null \/ s.lsRefreshToken # Null

Cleared(s) ==
  /\ s.accessTokenRef = Null /\ s.refreshTokenRef = Null
  /\ s.accessTokenExpiresAt = Null /\ s.refreshTokenExpiresAt = Null
  /\ s.lsAccessToken = Null /\ s.lsRefreshToken = Null
  /\ s.lsAccessTokenExpiresAt = Null /\ s.lsRefreshTokenExpiresAt = Null
  /\ s.profile = FALSE

\* the store as useAuthStore builds it from localStorage (lines 88-99, 358)
NewStore(ls, t) ==
  updateAuthenticationState(
    [accessTokenRef |-> ls.accessToken,
     refreshTokenRef |-> ls.refreshToken,
     accessTokenExpiresAt |-> ls.accessTokenExpiresAt,
     refreshTokenExpiresAt |-> ls.refreshTokenExpiresAt,
     profile |-> FALSE,
     isInitialized |-> FALSE,
     isAuthenticating |-> FALSE,
     sessionStatus |-> "anonymous",
     lsAccessToken |-> ls.accessToken,
     lsRefreshToken |-> ls.refreshToken,
     lsAccessTokenExpiresAt |-> ls.accessTokenExpiresAt,
     lsRefreshTokenExpiresAt |-> ls.refreshTokenExpiresAt,
     defaultAuthorization |-> ls.accessToken], t)

\* what an earlier visit may have left in localStorage: nothing, a pair that
\* is still valid, a pair whose access token has expired, a pair that has
\* expired altogether
StoredSessions ==
  { [accessToken |-> Null, refreshToken |-> Null,
     accessTokenExpiresAt |-> Null, refreshTokenExpiresAt |-> Null],
    [accessToken |-> 1, refreshToken |-> 1,
     accessTokenExpiresAt |-> T0 + 2 * TOKEN_EXPIRY_BUFFER_MS,
     refreshTokenExpiresAt |-> T0 + 3 * TOKEN_EXPIRY_BUFFER_MS],
    [accessToken |-> 1, refreshToken |-> 1,
     accessTokenExpiresAt |-> T0,
     refreshTokenExpiresAt |-> T0 + 3 * TOKEN_EXPIRY_BUFFER_MS],
    [accessToken |-> 1, refreshToken |-> 1,
     accessTokenExpiresAt |-> T0 - TOKEN_EXPIRY_BUFFER_MS,
     refreshTokenExpiresAt |-> T0] }

TokenResponse(n) ==
  [access_token |-> n, refresh_token |-> n,
   expires_in |-> AccessLifetimeS, refresh_expires_in |-> RefreshLifetimeS]

\* refreshTokens() without "if (refreshPromise) return refreshPromise"
refreshTokensNoShare(rf, s, t, cause) ==
  IF ~hasValidRefreshToken(s, t) \/ s.refreshTokenRef = Null
  THEN [refresh |-> rf, result |-> "throw"]
  ELSE [refresh |-> [rf EXCEPT !.promise = TRUE,
                               !.inFlight = @ + 1,
                               !.calls = @ + 1,
                               !.cause = Append(@, cause)],
        result |-> "start"]

\* refreshTokens(): the call itself, up to its first await.  cause is the
\* access token the caller wants replaced (kept for the record only).
\* result: "throw" (Session expired), "join" (the pending promise is
\* returned) or "start" (AuthApi.refresh is called)
refreshTokens(rf, s, t, cause) ==
  IF ~hasValidRefreshToken(s, t) \/ s.refreshTokenRef = Null
  THEN [refresh |-> rf, result |-> "throw"]
  ELSE IF rf.promise
  THEN [refresh |-> rf, result |-> "join"]
  ELSE [refresh |-> [rf EXCEPT !.promise = TRUE,
                               !.inFlight = @ + 1,
                               !.calls = @ + 1,
                               !.cause = Append(@, cause)],
        result |-> "start"]

\* ensureInitialized() without "if (!initializePromise)": every call made
\* before the restore completes runs the restore again
ensureInitializedNoMemo(s, in, rf, t) ==
  IF s.isInitialized
  THEN [store |-> s, init |-> in, refresh |-> rf, wait |-> FALSE, rt |-> "none"]
  ELSE LET started == [in EXCEPT !.promise = TRUE, !.runs = @ + 1] IN
    IF ~hasValidRefreshToken(s, t)
    THEN [store |-> clearPersistence(s, t),
          init |-> [started EXCEPT !.pc = "i_finally", !.failed = TRUE],
          refresh |-> rf, wait |-> TRUE, rt |-> "none"]
    ELSE IF ~hasValidAccessToken(s, t)
    THEN LET c == refreshTokens(rf, s, t, s.accessTokenRef) IN
         [store |-> s,
          init |-> [started EXCEPT !.pc = "i_refresh", !.refreshes = @ + 1],
          refresh |-> c.refresh, wait |-> TRUE, rt |-> c.result]
    ELSE IF ~s.profile
    THEN [store |-> s,
          init |-> [started EXCEPT !.pc = "i_profile", !.profiles = @ + 1],
          refresh |-> rf, wait |-> TRUE, rt |-> "none"]
    ELSE [store |-> s, init |-> [started EXCEPT !.pc = "i_finally"],
          refresh |-> rf, wait |-> TRUE, rt |-> "none"]

\* ensureInitialized(): the call up to its await of initializePromise.
\* wait = FALSE when it returns at once (isInitialized).
ensureInitialized(s, in, rf, t) ==
  IF s.isInitialized
  THEN [store |-> s, init |-> in, refresh |-> rf, wait |-> FALSE, rt |-> "none"]
  ELSE IF in.promise
  THEN [store |-> s, init |-> in, refresh |-> rf, wait |-> TRUE, rt |-> "none"]
  ELSE LET started == [in EXCEPT !.promise = TRUE, !.runs = @ + 1] IN
    IF ~hasValidRefreshToken(s, t)
    THEN [store |-> clearPersistence(s, t),
          init |-> [started EXCEPT !.pc = "i_finally", !.failed = TRUE],
          refresh |-> rf, wait |-> TRUE, rt |-> "none"]
    ELSE IF ~hasValidAccessToken(s, t)
    THEN LET c == refreshTokens(rf, s, t, s.accessTokenRef) IN
         [store |-> s,
          init |-> [started EXCEPT !.pc = "i_refresh", !.refreshes = @ + 1],
          refresh |-> c.refresh, wait |-> TRUE, rt |-> c.result]
    ELSE IF ~s.profile
    THEN [store |-> s,
          init |-> [started EXCEPT !.pc = "i_profile", !.profiles = @ + 1],
          refresh |-> rf, wait |-> TRUE, rt |-> "none"]
    ELSE [store |-> s, init |-> [started EXCEPT !.pc = "i_finally"],
          refresh |-> rf, wait |-> TRUE, rt |-> "none"]

Op(name, rt) == [op |-> name, rt |-> rt]

\* ------------------------------------------------------------ scheduling

ReqMicro == {"ri_run", "ri_got", "rf_got"}

MicroPending ==
  \/ init.pc \in {"i_got", "i_finally"}
  \/ \E r \in Reqs : reqs[r].pc \in ReqMicro
  \/ fetcher.pc \in {"f_run", "f_got1", "f_got2"}
  \/ guard.pc = "g_run"
  \/ logout.pc = "lo_run"

Macro == ~MicroPending

\* continuations of everything that awaits refreshPromise / initializePromise
WakeRefreshReqs(rq) ==
  [r \in Reqs |->
     IF rq[r].pc = "ri_refresh" THEN [rq[r] EXCEPT !.pc = "ri_got"]
     ELSE IF rq[r].pc = "rf_refresh" THEN [rq[r] EXCEPT !.pc = "rf_got"]
     ELSE rq[r]]

WakeRefreshFetcher(f) ==
  IF f.pc = "f_refresh1" THEN [f EXCEPT !.pc = "f_got1"]
  ELSE IF f.pc = "f_refresh2" THEN [f EXCEPT !.pc = "f_got2"]
  ELSE f

WakeRefreshInit(in) == IF in.pc = "i_refresh" THEN [in EXCEPT !.pc = "i_got"] ELSE in

WakeInitReqs(rq) ==
  [r \in Reqs |-> IF rq[r].pc = "ri_init" THEN [rq[r] EXCEPT !.pc = "ri_run"] ELSE rq[r]]

WakeInitFetcher(f) == IF f.pc = "f_init" THEN [f EXCEPT !.pc = "f_run"] ELSE f
WakeInitGuard(g) == IF g.pc = "g_init" THEN [g EXCEPT !.pc = "g_run"] ELSE g
WakeInitLogout(l) == IF l.pc = "lo_init" THEN [l EXCEPT !.pc = "lo_run"] ELSE l

\* ------------------------------------------------------------ chat widget

\* the locals of sendStreamingMessage before the request is made
\* received: the data lines of the complete events read so far; applied: how
\* many of them processBuffer has taken; partial: the data lines of the
\* event in the buffer whose blank line has not arrived; responses: the
\* calls of signals.onResponse; objectUrls: URL.createObjectURL calls
NewChat ==
  [pc |-> "idle", partial |-> <<>>, received |-> <<>>, applied |-> 0,
   assistantText |-> <<>>, hasAssistantMessage |-> FALSE, assistantRole |-> "",
   streamingFinished |-> FALSE, assistantFileMap |-> <<>>, objectUrls |-> 0,
   responses |-> <<>>, reads |-> 0, dlFailed |-> FALSE,
   aborted |-> FALSE, messageSent |-> FALSE, before |-> [sent |-> FALSE]]

\* the chat widget at setup: no hydration requested, no object URL created
NewWidget ==
  [mounted |-> TRUE, historyHydrationToken |-> 0, hydrations |-> <<>>,
   activeHistoryObjectUrls |-> {}, streamObjectUrls |-> {},
   hydratedHistory |-> [id |-> 0, cloned |-> FALSE, files |-> <<>>],
   created |-> <<>>, revoked |-> {}, messages |-> 0, downloads |-> <<>>]

\* the body of a stream response before its first read
NewWire ==
  [pc |-> "idle", text |-> <<>>, pos |-> 0, buffer |-> <<>>, reads |-> 0,
   streamingFinished |-> FALSE, assistantText |-> <<>>, emitted |-> <<>>, cuts |-> {}]

\* ------------------------------------------------------------------ Init

\* no token response has been persisted since the page was loaded
NothingPersisted == [at |-> Null, expires_in |-> 0, refresh_expires_in |-> 0]

Init ==
  /\ now = T0
  /\ ticks = 0
  /\ \E ls \in StoredSessions :
       /\ store = NewStore(ls, T0)
       /\ issued = IF ls.accessToken = Null THEN 0 ELSE 1
  /\ init = [promise |-> FALSE, pc |-> "none", runs |-> 0, refreshes |-> 0,
             profiles |-> 0, failed |-> FALSE]
  /\ refresh = [promise |-> FALSE, inFlight |-> 0, calls |-> 0, cause |-> <<>>,
                outcome |-> "none", token |-> Null]
  /\ gateway = [isRefreshing |-> FALSE, queue |-> <<>>, reissued |-> <<>>]
  /\ reqs = [r \in Reqs |-> [pc |-> "idle", tok |-> Null, isRetry |-> FALSE,
                              skip |-> FALSE, pub |-> FALSE, reissues |-> 0,
                              fellBack |-> FALSE]]
  /\ fetcher = [pc |-> "idle", tok |-> Null, sent |-> 0]
  /\ guard = [pc |-> "idle"]
  /\ login = [pc |-> "idle"]
  /\ logout = [pc |-> "idle"]
  /\ events = [login |-> 0, logout |-> 0]
  /\ lastOp = Op("Init", "none")
  /\ chat = NewChat
  /\ persisted = NothingPersisted
  /\ widget = NewWidget
  /\ wire = NewWire

\* ----------------------------------------------------------------- clock

\* Date.now() advances by one buffer length
Tick ==
  /\ Macro
  /\ ticks < MaxTicks
  /\ now' = now + TOKEN_EXPIRY_BUFFER_MS
  /\ ticks' = ticks + 1
  /\ lastOp' = Op("Tick", "none")
  /\ UNCHANGED <<widget, wire, chat, persisted, store, init, refresh, issued, gateway, reqs,
                 fetcher, guard, login, logout, events>>

\* ------------------------------------------------------- /auth/refresh

\* AuthApi.refresh resolves: the .then handler persists the pair, .finally
\* drops refreshPromise, and every awaiter is resumed with the new token
RefreshOk ==
  /\ Macro
  /\ refresh.inFlight > 0
  /\ issued < MaxIssued
  /\ issued' = issued + 1
  /\ store' = persistTokens(store, TokenResponse(issued + 1), now)
  /\ refresh' = [refresh EXCEPT !.promise = FALSE, !.inFlight = @ - 1,
                                !.outcome = "ok", !.token = issued + 1]
  /\ reqs' = WakeRefreshReqs(reqs)
  /\ fetcher' = WakeRefreshFetcher(fetcher)
  /\ init' = WakeRefreshInit(init)
  /\ lastOp' = Op("RefreshOk", "none")
  /\ UNCHANGED <<widget, wire, chat, persisted, now, ticks, gateway, guard, login, logout, events>>

\* AuthApi.refresh rejects: the .catch handler clears the session, emits
\* auth:logout and rethrows to every awaiter
RefreshFail ==
  /\ Macro
  /\ refresh.inFlight > 0
  /\ store' = clearPersistence(store, now)
  /\ events' = [events EXCEPT !.logout = @ + 1]
  /\ refresh' = [refresh EXCEPT !.promise = FALSE, !.inFlight = @ - 1,
                                !.outcome = "fail", !.token = Null]
  /\ reqs' = WakeRefreshReqs(reqs)
  /\ fetcher' = WakeRefreshFetcher(fetcher)
  /\ init' = WakeRefreshInit(init)
  /\ lastOp' = Op("RefreshFail", "none")
  /\ UNCHANGED <<widget, wire, chat, persisted, now, ticks, issued, gateway, guard, login, logout>>

\* ------------------------------------------------- ensureInitialized

\* main.ts: void authStore.ensureInitialized()
MainInit ==
  /\ Macro
  /\ init.runs = 0 /\ ~store.isInitialized
  /\ LET e == ensureInitialized(store, init, refresh, now) IN
       /\ store' = e.store /\ init' = e.init /\ refresh' = e.refresh
       /\ lastOp' = Op("MainInit", e.rt)
  /\ UNCHANGED <<widget, wire, chat, persisted, now, ticks, issued, gateway, reqs, fetcher, guard, login,
                 logout, events>>

\* the restore resumes after await refreshTokens()
InitGot ==
  /\ init.pc = "i_got"
  /\ IF refresh.outcome = "ok"
     THEN IF store.profile
          THEN /\ init' = [init EXCEPT !.pc = "i_finally"]
               /\ store' = store
          ELSE IF store.accessTokenRef = Null
          THEN \* fetchProfile throws: no access token
               /\ init' = [init EXCEPT !.pc = "i_finally", !.failed = TRUE]
               /\ store' = clearPersistence(store, now)
          ELSE /\ init' = [init EXCEPT !.pc = "i_profile", !.profiles = @ + 1]
               /\ store' = store
     ELSE /\ init' = [init EXCEPT !.pc = "i_finally", !.failed = TRUE]
          /\ store' = clearPersistence(store, now)
  /\ lastOp' = Op("InitGot", "none")
  /\ UNCHANGED <<widget, wire, chat, persisted, now, ticks, refresh, issued, gateway, reqs, fetcher, guard,
                 login, logout, events>>

\* AuthApi.me of the restore resolves
InitProfileOk ==
  /\ Macro
  /\ init.pc = "i_profile"
  /\ store' = [store EXCEPT !.profile = TRUE]
  /\ init' = [init EXCEPT !.pc = "i_finally"]
  /\ lastOp' = Op("InitProfileOk", "none")
  /\ UNCHANGED <<widget, wire, chat, persisted, now, ticks, refresh, issued, gateway, reqs, fetcher, guard,
                 login, logout, events>>

\* the catch of the restore without clearPersistence()
InitProfileFailNoClear ==
  /\ Macro
  /\ init.pc = "i_profile"
  /\ store' = store
  /\ init' = [init EXCEPT !.pc = "i_finally", !.failed = TRUE]
  /\ lastOp' = Op("InitProfileFail", "none")
  /\ UNCHANGED <<widget, wire, chat, persisted, now, ticks, refresh, issued, gateway, reqs, fetcher, guard,
                 login, logout, events>>

\* AuthApi.me of the restore rejects: the catch clears the session
InitProfileFail ==
  /\ Macro
  /\ init.pc = "i_profile"
  /\ store' = clearPersistence(store, now)
  /\ init' = [init EXCEPT !.pc = "i_finally", !.failed = TRUE]
  /\ lastOp' = Op("InitProfileFail", "none")
  /\ UNCHANGED <<widget, wire, chat, persisted, now, ticks, refresh, issued, gateway, reqs, fetcher, guard,
                 login, logout, events>>

\* the .finally of initializePromise; the callers awaiting it resume
InitFinally ==
  /\ init.pc = "i_finally"
  /\ store' = updateAuthenticationState([store EXCEPT !.isInitialized = TRUE], now)
  /\ init' = [init EXCEPT !.promise = FALSE, !.pc = "done"]
  /\ reqs' = WakeInitReqs(reqs)
  /\ fetcher' = WakeInitFetcher(fetcher)
  /\ guard' = WakeInitGuard(guard)
  /\ logout' = WakeInitLogout(logout)
  /\ lastOp' = Op("InitFinally", "none")
  /\ UNCHANGED <<widget, wire, chat, persisted, now, ticks, refresh, issued, gateway, login, events>>

\* ------------------------------------------- gateway: request interceptor

Range(q) == {q[i] : i \in 1..Len(q)}

\* ensureValidAccessToken() once ensureInitialized has returned.
\* result: "token" (the valid cached token), "throw", "join" or "start"
ensureValidAccessToken(rf, s, t) ==
  IF hasValidAccessToken(s, t) /\ s.accessTokenRef # Null
  THEN [refresh |-> rf, result |-> "token", token |-> s.accessTokenRef]
  ELSE LET c == refreshTokens(rf, s, t, s.accessTokenRef) IN
       [refresh |-> c.refresh, result |-> c.result, token |-> Null]

\* setAuthorizationHeader under "if (token)"
WithToken(q, token) == IF token # Null THEN [q EXCEPT !.tok = token] ELSE q

\* the application issues request r: axios merges the default Authorization
\* header into the config, then the request interceptor awaits
\* ensureInitialized()
ReqStart(r, skip) ==
  /\ Macro
  /\ reqs[r].pc = "idle"
  /\ LET e == ensureInitialized(store, init, refresh, now) IN
       /\ store' = e.store /\ init' = e.init /\ refresh' = e.refresh
       /\ reqs' = [reqs EXCEPT ![r] = [@ EXCEPT
                      !.pc = IF e.wait THEN "ri_init" ELSE "ri_run",
                      !.skip = skip,
                      !.tok = store.defaultAuthorization]]
       /\ lastOp' = Op("ReqStart", e.rt)
  /\ UNCHANGED <<widget, wire, chat, persisted, now, ticks, issued, gateway, fetcher, guard, login, logout, events>>

\* the application issues request r to /auth/login, /auth/register or
\* /auth/refresh: the request interceptor skips ensureInitialized() and the
\* token, and the request goes out as axios built it
ReqStartPublic(r, skip) ==
  /\ Macro
  /\ reqs[r].pc = "idle"
  /\ reqs' = [reqs EXCEPT ![r] = [@ EXCEPT !.pc = "sent", !.skip = skip,
                                           !.pub = TRUE,
                                           !.tok = store.defaultAuthorization]]
  /\ lastOp' = Op("ReqStartPublic", "none")
  /\ UNCHANGED <<widget, wire, chat, persisted, now, ticks, store, init, refresh, issued,
                 gateway, fetcher, guard, login, logout, events>>

\* the request interceptor after ensureInitialized(), up to the send or to
\* the await of refreshTokens()
ReqRun(r) ==
  /\ reqs[r].pc = "ri_run"
  /\ IF reqs[r].pub \/ store.sessionStatus # "authenticated"
     THEN /\ reqs' = [reqs EXCEPT ![r].pc = "sent"]
          /\ refresh' = refresh
          /\ lastOp' = Op("ReqRun", "none")
     ELSE IF reqs[r].skip
     THEN /\ reqs' = [reqs EXCEPT ![r] =
                         [WithToken(@, store.accessTokenRef) EXCEPT !.pc = "sent"]]
          /\ refresh' = refresh
          /\ lastOp' = Op("ReqRun", "none")
     ELSE LET v == ensureValidAccessToken(refresh, store, now) IN
          /\ refresh' = v.refresh
          /\ lastOp' = Op("ReqRun", IF v.result = "token" THEN "none" ELSE v.result)
          /\ reqs' = [reqs EXCEPT ![r] =
               IF v.result = "token"
               THEN [WithToken(@, v.token) EXCEPT !.pc = "sent"]
               ELSE IF v.result = "throw"
               THEN [WithToken(@, store.accessTokenRef) EXCEPT
                       !.pc = "sent", !.fellBack = TRUE]
               ELSE [@ EXCEPT !.pc = "ri_refresh"]]
  /\ UNCHANGED <<widget, wire, chat, persisted, now, ticks, store, init, issued, gateway, fetcher, guard,
                 login, logout, events>>

\* the request interceptor resumes after ensureValidAccessToken() settled
ReqGot(r) ==
  /\ reqs[r].pc = "ri_got"
  /\ reqs' = [reqs EXCEPT ![r] =
       IF refresh.outcome = "ok"
       THEN [WithToken(@, refresh.token) EXCEPT !.pc = "sent"]
       ELSE [WithToken(@, store.accessTokenRef) EXCEPT
               !.pc = "sent", !.fellBack = TRUE]]
  /\ lastOp' = Op("ReqGot", "none")
  /\ UNCHANGED <<widget, wire, chat, persisted, now, ticks, store, init, refresh, issued, gateway, fetcher,
                 guard, login, logout, events>>

\* ------------------------------------------ gateway: response interceptor

\* a 2xx response: the server accepts only the newest access token
Resp200(r) ==
  /\ Macro
  /\ reqs[r].pc = "sent"
  /\ reqs[r].tok # Null /\ reqs[r].tok = issued
  /\ reqs' = [reqs EXCEPT ![r].pc = "ok"]
  /\ lastOp' = Op("Resp200", "none")
  /\ UNCHANGED <<widget, wire, chat, persisted, now, ticks, store, init, refresh, issued, gateway, fetcher,
                 guard, login, logout, events>>

\* no response, or a status other than 401: the error is passed on
RespError(r) ==
  /\ Macro
  /\ reqs[r].pc = "sent"
  /\ reqs' = [reqs EXCEPT ![r].pc = "rejected"]
  /\ lastOp' = Op("RespError", "none")
  /\ UNCHANGED <<widget, wire, chat, persisted, now, ticks, store, init, refresh, issued, gateway, fetcher,
                 guard, login, logout, events>>

enqueueRequest(gw, r) == [gw EXCEPT !.queue = Append(@, r)]

\* the response interceptor with "if (isRefreshing)" ahead of
\* "if (!authStore.hasRefreshToken)"
Resp401QueueFirst(r) ==
  /\ Macro
  /\ reqs[r].pc = "sent"
  /\ IF reqs[r].skip \/ reqs[r].isRetry
     THEN /\ reqs' = [reqs EXCEPT ![r].pc = "rej401"]
          /\ lastOp' = Op("Resp401", "none")
          /\ UNCHANGED <<store, refresh, gateway, events>>
     ELSE IF gateway.isRefreshing
     THEN /\ gateway' = enqueueRequest(gateway, r)
          /\ reqs' = [reqs EXCEPT ![r].pc = "queued"]
          /\ lastOp' = Op("Resp401Enqueue", "none")
          /\ UNCHANGED <<store, refresh, events>>
     ELSE IF ~hasValidRefreshToken(store, now)
     THEN /\ store' = forceLogout(store, now)
          /\ events' = [events EXCEPT !.logout = @ + 1]
          /\ reqs' = [reqs EXCEPT ![r].pc = "rej401"]
          /\ lastOp' = Op("Resp401Force", "none")
          /\ UNCHANGED <<refresh, gateway>>
     ELSE LET c == refreshTokens(refresh, store, now, reqs[r].tok) IN
          /\ refresh' = c.refresh
          /\ gateway' = [gateway EXCEPT !.isRefreshing = TRUE]
          /\ reqs' = [reqs EXCEPT ![r] = [@ EXCEPT !.isRetry = TRUE,
                                                   !.pc = "rf_refresh"]]
          /\ lastOp' = Op("Resp401Refresh", c.result)
          /\ UNCHANGED <<store, events>>
  /\ UNCHANGED <<widget, wire, chat, persisted, now, ticks, init, issued, fetcher, guard, login,
                 logout>>

\* a 401 response
Resp401(r) ==
  /\ Macro
  /\ reqs[r].pc = "sent"
  /\ IF reqs[r].skip \/ reqs[r].isRetry
     THEN /\ reqs' = [reqs EXCEPT ![r].pc = "rej401"]
          /\ lastOp' = Op("Resp401", "none")
          /\ UNCHANGED <<store, refresh, gateway, events>>
     ELSE IF ~hasValidRefreshToken(store, now)
     THEN /\ store' = forceLogout(store, now)
          /\ events' = [events EXCEPT !.logout = @ + 1]
          /\ reqs' = [reqs EXCEPT ![r].pc = "rej401"]
          /\ lastOp' = Op("Resp401Force", "none")
          /\ UNCHANGED <<refresh, gateway>>
     ELSE IF gateway.isRefreshing
     THEN /\ gateway' = enqueueRequest(gateway, r)
          /\ reqs' = [reqs EXCEPT ![r].pc = "queued"]
          /\ lastOp' = Op("Resp401Enqueue", "none")
          /\ UNCHANGED <<store, refresh, events>>
     ELSE LET c == refreshTokens(refresh, store, now, reqs[r].tok) IN
          /\ refresh' = c.refresh
          /\ gateway' = [gateway EXCEPT !.isRefreshing = TRUE]
          /\ reqs' = [reqs EXCEPT ![r] = [@ EXCEPT !.isRetry = TRUE,
                                                   !.pc = "rf_refresh"]]
          /\ lastOp' = Op("Resp401Refresh", c.result)
          /\ UNCHANGED <<store, events>>
  /\ UNCHANGED <<widget, wire, chat, persisted, now, ticks, init, issued, fetcher, guard, login, logout>>

\* processQueue() with "if" for "while": only the head of the queue is taken
processQueueOnce(gw, rq, error, token) ==
  IF gw.queue = <<>> THEN [gateway |-> gw, reqs |-> rq]
  ELSE LET r == Head(gw.queue) IN
       IF error
       THEN [gateway |-> [gw EXCEPT !.queue = Tail(@)],
             reqs |-> [rq EXCEPT ![r].pc = "rejRefresh"]]
       ELSE [gateway |-> [gw EXCEPT !.queue = Tail(@), !.reissued = Append(@, r)],
             reqs |-> [rq EXCEPT ![r] = [WithToken(@, token) EXCEPT
                                           !.isRetry = TRUE, !.pc = "ri_run",
                                           !.reissues = @ + 1]]]

\* processQueue() without "config.__isRetry = true"
RECURSIVE processQueueNoMark(_, _, _, _)
processQueueNoMark(gw, rq, error, token) ==
  IF gw.queue = <<>> THEN [gateway |-> gw, reqs |-> rq]
  ELSE LET r == Head(gw.queue) IN
       IF error
       THEN processQueueNoMark([gw EXCEPT !.queue = Tail(@)],
                               [rq EXCEPT ![r].pc = "rejRefresh"], error, token)
       ELSE processQueueNoMark(
              [gw EXCEPT !.queue = Tail(@), !.reissued = Append(@, r)],
              [rq EXCEPT ![r] = [WithToken(@, token) EXCEPT
                                   !.pc = "ri_run", !.reissues = @ + 1]],
              error, token)

\* processQueue() with queue.pop() for queue.shift()
RECURSIVE processQueueLifo(_, _, _, _)
processQueueLifo(gw, rq, error, token) ==
  IF gw.queue = <<>> THEN [gateway |-> gw, reqs |-> rq]
  ELSE LET r == gw.queue[Len(gw.queue)]
           rest == SubSeq(gw.queue, 1, Len(gw.queue) - 1) IN
       IF error
       THEN processQueueLifo([gw EXCEPT !.queue = rest],
                             [rq EXCEPT ![r].pc = "rejRefresh"], error, token)
       ELSE processQueueLifo(
              [gw EXCEPT !.queue = rest, !.reissued = Append(@, r)],
              [rq EXCEPT ![r] = [WithToken(@, token) EXCEPT
                                   !.isRetry = TRUE, !.pc = "ri_run",
                                   !.reissues = @ + 1]],
              error, token)

\* processQueue(error, token): while the queue is not empty, shift its head
\* and reject it, or mark it as retry and reissue it with the token
RECURSIVE processQueue(_, _, _, _)
processQueue(gw, rq, error, token) ==
  IF gw.queue = <<>> THEN [gateway |-> gw, reqs |-> rq]
  ELSE LET r == Head(gw.queue) IN
       IF error
       THEN processQueue([gw EXCEPT !.queue = Tail(@)],
                         [rq EXCEPT ![r].pc = "rejRefresh"], error, token)
       ELSE processQueue([gw EXCEPT !.queue = Tail(@), !.reissued = Append(@, r)],
                         [rq EXCEPT ![r] = [WithToken(@, token) EXCEPT
                                              !.isRetry = TRUE, !.pc = "ri_run",
                                              !.reissues = @ + 1]],
                         error, token)

\* the refresher resumes after await authStore.refreshTokens()
RefresherGot(r) ==
  /\ reqs[r].pc = "rf_got"
  /\ IF refresh.outcome = "ok"
     THEN LET p == processQueue(gateway, reqs, FALSE, refresh.token) IN
          /\ reqs' = [p.reqs EXCEPT ![r] = [@ EXCEPT !.tok = refresh.token,
                                                     !.pc = "ri_run",
                                                     !.reissues = @ + 1]]
          /\ gateway' = [p.gateway EXCEPT !.isRefreshing = FALSE,
                                          !.reissued = Append(@, r)]
          /\ lastOp' = Op("RefresherOk", "none")
          /\ UNCHANGED <<store, events>>
     ELSE LET p == processQueue(gateway, reqs, TRUE, Null) IN
          /\ reqs' = [p.reqs EXCEPT ![r].pc = "rejRefresh"]
          /\ store' = forceLogout(store, now)
          /\ events' = [events EXCEPT !.logout = @ + 1]
          /\ gateway' = [p.gateway EXCEPT !.isRefreshing = FALSE]
          /\ lastOp' = Op("RefresherFail", "none")
  /\ UNCHANGED <<widget, wire, chat, persisted, now, ticks, init, refresh, issued, fetcher, guard, login, logout>>

\* ------------------------------------------------------- authorizedFetch

\* authorizedFetch(): ensureValidAccessToken() starts with ensureInitialized()
FetchStart ==
  /\ Macro
  /\ fetcher.pc = "idle"
  /\ LET e == ensureInitialized(store, init, refresh, now) IN
       /\ store' = e.store /\ init' = e.init /\ refresh' = e.refresh
       /\ fetcher' = [fetcher EXCEPT !.pc = IF e.wait THEN "f_init" ELSE "f_run"]
       /\ lastOp' = Op("FetchStart", e.rt)
  /\ UNCHANGED <<widget, wire, chat, persisted, now, ticks, issued, gateway, reqs, guard, login, logout, events>>

\* authorizedFetch with the request interceptor's catch: on failure the
\* fetch goes out with the cached token
FetchRunFallBack ==
  /\ fetcher.pc = "f_run"
  /\ LET v == ensureValidAccessToken(refresh, store, now) IN
       /\ refresh' = v.refresh
       /\ lastOp' = Op("FetchRun", IF v.result = "token" THEN "none" ELSE v.result)
       /\ fetcher' =
            IF v.result = "token"
            THEN [pc |-> "f_sent1", tok |-> v.token, sent |-> fetcher.sent + 1]
            ELSE IF v.result = "throw"
            THEN [pc |-> "f_sent1", tok |-> store.accessTokenRef,
                  sent |-> fetcher.sent + 1]
            ELSE [fetcher EXCEPT !.pc = "f_refresh1"]
  /\ UNCHANGED <<widget, wire, chat, persisted, now, ticks, store, init, issued, gateway, reqs, guard, login,
                 logout, events>>

\* ensureValidAccessToken() after ensureInitialized(); with a token the
\* first fetch is sent, without one the error goes to the caller
FetchRun ==
  /\ fetcher.pc = "f_run"
  /\ LET v == ensureValidAccessToken(refresh, store, now) IN
       /\ refresh' = v.refresh
       /\ lastOp' = Op("FetchRun", IF v.result = "token" THEN "none" ELSE v.result)
       /\ fetcher' =
            IF v.result = "token"
            THEN [pc |-> "f_sent1", tok |-> v.token, sent |-> fetcher.sent + 1]
            ELSE IF v.result = "throw"
            THEN [fetcher EXCEPT !.pc = "f_noToken"]
            ELSE [fetcher EXCEPT !.pc = "f_refresh1"]
  /\ UNCHANGED <<widget, wire, chat, persisted, now, ticks, store, init, issued, gateway, reqs, guard, login,
                 logout, events>>

\* authorizedFetch resumes after the refresh behind ensureValidAccessToken()
FetchGot1 ==
  /\ fetcher.pc = "f_got1"
  /\ fetcher' =
       IF refresh.outcome = "ok"
       THEN [pc |-> "f_sent1", tok |-> refresh.token, sent |-> fetcher.sent + 1]
       ELSE [fetcher EXCEPT !.pc = "f_noToken"]
  /\ lastOp' = Op("FetchGot1", "none")
  /\ UNCHANGED <<widget, wire, chat, persisted, now, ticks, store, init, refresh, issued, gateway, reqs, guard,
                 login, logout, events>>

\* a response other than 401 to either fetch is returned as it is
FetchResponse ==
  /\ Macro
  /\ fetcher.pc \in {"f_sent1", "f_sent2"}
  /\ \/ /\ fetcher.tok = issued
        /\ fetcher' = [fetcher EXCEPT !.pc = "f_ok"]
     \/ fetcher' = [fetcher EXCEPT !.pc = "f_other"]
  /\ lastOp' = Op("FetchResponse", "none")
  /\ UNCHANGED <<widget, wire, chat, persisted, now, ticks, store, init, refresh, issued, gateway, reqs, guard,
                 login, logout, events>>

\* a 401 to the first fetch (options.retry is never false in the callers)
Fetch401 ==
  /\ Macro
  /\ fetcher.pc = "f_sent1"
  /\ IF ~hasValidRefreshToken(store, now)
     THEN /\ store' = forceLogout(store, now)
          /\ events' = [events EXCEPT !.logout = @ + 1]
          /\ fetcher' = [fetcher EXCEPT !.pc = "f_401"]
          /\ refresh' = refresh
          /\ lastOp' = Op("Fetch401Force", "none")
     ELSE LET c == refreshTokens(refresh, store, now, fetcher.tok) IN
          /\ refresh' = c.refresh
          /\ fetcher' = [fetcher EXCEPT !.pc = "f_refresh2"]
          /\ lastOp' = Op("Fetch401Refresh", c.result)
          /\ UNCHANGED <<store, events>>
  /\ UNCHANGED <<widget, wire, chat, persisted, now, ticks, init, issued, gateway, reqs, guard, login, logout>>

\* authorizedFetch resumes after the refresh it asked for on a 401: the
\* fetch is repeated once with the new token, or the session is dropped
FetchGot2 ==
  /\ fetcher.pc = "f_got2"
  /\ IF refresh.outcome = "ok"
     THEN /\ fetcher' = [pc |-> "f_sent2", tok |-> refresh.token,
                         sent |-> fetcher.sent + 1]
          /\ lastOp' = Op("FetchRetry", "none")
          /\ UNCHANGED <<store, events>>
     ELSE /\ store' = forceLogout(store, now)
          /\ events' = [events EXCEPT !.logout = @ + 1]
          /\ fetcher' = [fetcher EXCEPT !.pc = "f_failed"]
          /\ lastOp' = Op("FetchRetryFail", "none")
  /\ UNCHANGED <<widget, wire, chat, persisted, now, ticks, init, refresh, issued, gateway, reqs, guard, login,
                 logout>>

\* a 401 to the repeated fetch is returned to the caller
Fetch401Again ==
  /\ Macro
  /\ fetcher.pc = "f_sent2"
  /\ fetcher' = [fetcher EXCEPT !.pc = "f_401"]
  /\ lastOp' = Op("Fetch401Again", "none")
  /\ UNCHANGED <<widget, wire, chat, persisted, now, ticks, store, init, refresh, issued, gateway, reqs, guard,
                 login, logout, events>>

\* ---------------------------------------------------------- router guard

GuardStart ==
  /\ Macro
  /\ guard.pc = "idle"
  /\ LET e == ensureInitialized(store, init, refresh, now) IN
       /\ store' = e.store /\ init' = e.init /\ refresh' = e.refresh
       /\ guard' = [pc |-> IF e.wait THEN "g_init" ELSE "g_run"]
       /\ lastOp' = Op("GuardStart", e.rt)
  /\ UNCHANGED <<widget, wire, chat, persisted, now, ticks, issued, gateway, reqs, fetcher, login, logout, events>>

\* beforeEach after ensureInitialized(): "g_evat" stands for the call of
\* ensureValidAccessToken() under requiresAuth && !hasSession && hasRefreshToken
GuardRun(requiresAuth) ==
  /\ guard.pc = "g_run"
  /\ guard' = [pc |->
       IF requiresAuth /\ ~hasSession(store, now)
       THEN IF hasValidRefreshToken(store, now) THEN "g_evat" ELSE "g_login"
       ELSE "g_next"]
  /\ lastOp' = Op("GuardRun", "none")
  /\ UNCHANGED <<widget, wire, chat, persisted, now, ticks, store, init, refresh, issued, gateway, reqs, fetcher,
                 login, logout, events>>

\* ------------------------------------------------------------------ login

\* login(): the login page is mounted only after the guard's
\* ensureInitialized() has returned
LoginStart ==
  /\ Macro
  /\ login.pc = "idle"
  /\ store.isInitialized
  /\ store' = [store EXCEPT !.isAuthenticating = TRUE]
  /\ login' = [pc |-> "l_exchange"]
  /\ lastOp' = Op("LoginStart", "none")
  /\ UNCHANGED <<widget, wire, chat, persisted, now, ticks, init, refresh, issued, gateway, reqs, fetcher, guard,
                 logout, events>>

\* AuthApi.login resolves: persistTokens, then fetchProfile's AuthApi.me
LoginExchangeOk ==
  /\ Macro
  /\ login.pc = "l_exchange"
  /\ issued < MaxIssued
  /\ issued' = issued + 1
  /\ store' = persistTokens(store, TokenResponse(issued + 1), now)
  /\ login' = [pc |-> "l_profile"]
  /\ lastOp' = Op("LoginExchangeOk", "none")
  /\ UNCHANGED <<widget, wire, chat, persisted, now, ticks, init, refresh, gateway, reqs, fetcher, guard, logout,
                 events>>

\* the catch of login() without clearPersistence()
LoginFailNoClear ==
  /\ Macro
  /\ login.pc \in {"l_exchange", "l_profile"}
  /\ store' = [store EXCEPT !.isAuthenticating = FALSE]
  /\ login' = [pc |-> "l_failed"]
  /\ lastOp' = Op(IF login.pc = "l_exchange" THEN "LoginExchangeFail"
                  ELSE "LoginProfileFail", "none")
  /\ UNCHANGED <<widget, wire, chat, persisted, now, ticks, init, refresh, issued, gateway,
                 reqs, fetcher, guard, logout, events>>

\* AuthApi.login or AuthApi.me rejects: the catch clears the session
LoginFail ==
  /\ Macro
  /\ login.pc \in {"l_exchange", "l_profile"}
  /\ store' = [clearPersistence(store, now) EXCEPT !.isAuthenticating = FALSE]
  /\ login' = [pc |-> "l_failed"]
  /\ lastOp' = Op(IF login.pc = "l_exchange" THEN "LoginExchangeFail"
                  ELSE "LoginProfileFail", "none")
  /\ UNCHANGED <<widget, wire, chat, persisted, now, ticks, init, refresh, issued, gateway, reqs, fetcher, guard,
                 logout, events>>

\* AuthApi.me resolves: profile, auth:login, isInitialized
LoginProfileOk ==
  /\ Macro
  /\ login.pc = "l_profile"
  /\ store' = updateAuthenticationState(
                 [store EXCEPT !.profile = TRUE, !.isInitialized = TRUE,
                               !.isAuthenticating = FALSE], now)
  /\ events' = [events EXCEPT !.login = @ + 1]
  /\ login' = [pc |-> "l_done"]
  /\ lastOp' = Op("LoginOk", "none")
  /\ UNCHANGED <<widget, wire, chat, persisted, now, ticks, init, refresh, issued, gateway, reqs, fetcher, guard,
                 logout>>

\* ----------------------------------------------------------------- logout

\* the finally block of logout() without clearPersistence()
LogoutFinallyNoClear(s, t) == [s EXCEPT !.isInitialized = TRUE]

\* the finally block of logout()
LogoutFinally(s, t) == [clearPersistence(s, t) EXCEPT !.isInitialized = TRUE]

\* logout(): with an access token AuthApi.logout() goes through the
\* gateway, whose request interceptor awaits ensureInitialized()
LogoutStart ==
  /\ Macro
  /\ logout.pc = "idle"
  /\ IF store.accessTokenRef # Null
     THEN LET e == ensureInitialized(store, init, refresh, now) IN
          /\ store' = e.store /\ init' = e.init /\ refresh' = e.refresh
          /\ logout' = [pc |-> IF e.wait THEN "lo_init" ELSE "lo_run"]
          /\ lastOp' = Op("LogoutStart", e.rt)
          /\ events' = events
     ELSE /\ store' = LogoutFinally(store, now)
          /\ events' = [events EXCEPT !.logout = @ + 1]
          /\ logout' = [pc |-> "lo_done"]
          /\ lastOp' = Op("Logout", "none")
          /\ UNCHANGED <<init, refresh>>
  /\ UNCHANGED <<widget, wire, chat, persisted, now, ticks, issued, gateway, reqs, fetcher, guard, login>>

\* the request interceptor sends POST /auth/logout (X-Skip-Auth-Refresh)
LogoutRun ==
  /\ logout.pc = "lo_run"
  /\ logout' = [pc |-> "lo_sent"]
  /\ lastOp' = Op("LogoutRun", "none")
  /\ UNCHANGED <<widget, wire, chat, persisted, now, ticks, store, init, refresh, issued, gateway, reqs, fetcher,
                 guard, login, events>>

\* POST /auth/logout settles either way: finally clears the session
LogoutSettled ==
  /\ Macro
  /\ logout.pc = "lo_sent"
  /\ store' = LogoutFinally(store, now)
  /\ events' = [events EXCEPT !.logout = @ + 1]
  /\ logout' = [pc |-> "lo_done"]
  /\ lastOp' = Op("Logout", "none")
  /\ UNCHANGED <<widget, wire, chat, persisted, now, ticks, init, refresh, issued, gateway, reqs, fetcher, guard,
                 login>>

\* ------------------------------------------------ persist and reload

\* String(value) of writeNumber and Number.parseInt(raw, 10) of readNumber,
\* on decimal digits
RECURSIVE Digits(_)
Digits(n) == IF n < 10 THEN <<n>> ELSE Append(Digits(n \div 10), n % 10)

RECURSIVE parseInt(_)
parseInt(raw) ==
  IF Len(raw) = 1 THEN raw[1]
  ELSE 10 * parseInt(SubSeq(raw, 1, Len(raw) - 1)) + raw[Len(raw)]

\* the item writeNumber leaves in localStorage (<<>>: removed)
writeNumber(value) == IF value = Null THEN <<>> ELSE Digits(value)

readNumber(raw) == IF raw = <<>> THEN Null ELSE parseInt(raw)

\* token lifetimes a token response may carry, in seconds
Lifetimes == {1, 10, 11, 900}

\* a token response with lifetimes la and lr is persisted
Persist(la, lr) ==
  /\ issued < MaxIssued
  /\ issued' = issued + 1
  /\ store' = persistTokens(store, [access_token |-> issued + 1,
                                    refresh_token |-> issued + 1,
                                    expires_in |-> la,
                                    refresh_expires_in |-> lr], now)
  /\ persisted' = [at |-> now, expires_in |-> la, refresh_expires_in |-> lr]
  /\ lastOp' = Op("Persist", "none")
  /\ UNCHANGED <<widget, wire, chat, now, ticks, init, refresh, gateway, reqs, fetcher, guard,
                 login, logout, events>>

\* the page is loaded again: useAuthStore builds the store from localStorage
Reload ==
  /\ store' = NewStore(
       [accessToken |-> store.lsAccessToken,
        refreshToken |-> store.lsRefreshToken,
        accessTokenExpiresAt |->
          readNumber(writeNumber(store.lsAccessTokenExpiresAt)),
        refreshTokenExpiresAt |->
          readNumber(writeNumber(store.lsRefreshTokenExpiresAt))], now)
  /\ lastOp' = Op("Reload", "none")
  /\ UNCHANGED <<widget, wire, chat, persisted, now, ticks, init, refresh, issued, gateway, reqs,
                 fetcher, guard, login, logout, events>>

\* -------------------------------------------------- stream: payloads

\* text is a sequence of characters
Hel == <<"H", "e", "l">>
Lo == <<"l", "o">>

\* delta.content / message.content: absent, a string, an array of strings,
\* {text} objects and other values, a {text} object, or another value
Absent == [form |-> "absent", parts |-> <<>>]
Str(t) == [form |-> "string", parts |-> <<[t |-> "string", s |-> t]>>]
Arr(ps) == [form |-> "array", parts |-> ps]
Obj(t) == [form |-> "object", parts |-> <<[t |-> "text", s |-> t]>>]
Other == [form |-> "other", parts |-> <<>>]

\* an entry of message_metadata.attachments: download "none", "public" (a
\* URL of another origin) or "protected" (an /attachments/ URL of the API)
Attachment(id, download, b64) ==
  [obj |-> TRUE, id |-> id, download |-> download, b64 |-> b64]

NotAnObject == [obj |-> FALSE, id |-> "", download |-> "none", b64 |-> FALSE]

\* a data line: kind "empty", "done" ([DONE]), "malformed" (JSON.parse
\* throws), "scalar" (JSON that is no object), "error" ({error: {message}})
\* or "chunk" (one choice with delta and message, and message_metadata)
Line(kind) ==
  [kind |-> kind, role |-> "", content |-> Absent, msg |-> Absent,
   atts |-> <<>>, err |-> ""]

Chunk(role, content, msg, atts) ==
  [kind |-> "chunk", role |-> role, content |-> content, msg |-> msg,
   atts |-> atts, err |-> ""]

ErrorLine(message) == [Line("error") EXCEPT !.err = message]

\* t('chat.errors.stream')
streamErrorMessage == "stream failed"

ProviderError == "LLM provider error"

\* the data lines a server sends
DataLines ==
  { Line("empty"), Line("done"), Line("malformed"), Line("scalar"),
    ErrorLine(ProviderError), ErrorLine(" "),
    Chunk("assistant", Str(Hel), Absent, <<>>),
    Chunk("", Str(Lo), Absent, <<>>),
    Chunk("tool", Absent, Absent, <<>>),
    Chunk("", Str(<<>>), Other, <<>>),
    Chunk("", Arr(<<[t |-> "string", s |-> <<"l">>], [t |-> "other", s |-> <<>>],
                    [t |-> "text", s |-> <<"o">>]>>), Absent, <<>>),
    Chunk("", Obj(<<"l">>), Str(<<"o">>), <<>>),
    Chunk("", Absent, Absent, <<Attachment("a1", "protected", FALSE)>>),
    Chunk("", Absent, Absent, <<Attachment("", "public", FALSE)>>),
    Chunk("", Absent, Absent, <<Attachment("", "protected", TRUE)>>),
    Chunk("", Absent, Absent, <<NotAnObject, Attachment("", "none", TRUE)>>) }

\* the events a server sends: one data line, or two of these
Events ==
  {<<l>> : l \in DataLines} \cup
  { <<Chunk("", Str(Lo), Absent, <<>>), Line("done")>>,
    <<Line("done"), Chunk("", Str(Lo), Absent, <<>>)>>,
    <<Line("malformed"), Chunk("", Str(Lo), Absent, <<>>)>>,
    <<ErrorLine(ProviderError), Line("done")>> }

\* -------------------------------------------------- stream: consumer

\* message.trim().length > 0, for the messages above
NotBlank(message) == message \notin {"", " "}

\* appendContent() on one element of an array, or on the text of an object
appendPart(text, part) ==
  IF part.t \in {"string", "text"} /\ part.s # <<>>
  THEN [text |-> text \o part.s, appended |-> TRUE]
  ELSE [text |-> text, appended |-> FALSE]

RECURSIVE appendParts(_, _)
appendParts(text, parts) ==
  IF parts = <<>> THEN [text |-> text, appended |-> FALSE]
  ELSE LET a == appendPart(text, Head(parts))
           b == appendParts(a.text, Tail(parts))
       IN [text |-> b.text, appended |-> a.appended \/ b.appended]

\* appendContent(content): the text after it and what it returns
appendContent(text, content) ==
  IF content.form = "string" THEN appendPart(text, content.parts[1])
  ELSE IF content.form = "array" THEN appendParts(text, content.parts)
  ELSE IF content.form = "object" THEN appendPart(text, content.parts[1])
  ELSE [text |-> text, appended |-> FALSE]

NoSrc == [kind |-> "none", n |-> 0]

\* normalizeStreamAttachmentFile(): the src of the file, NoSrc for null.
\* A protected URL is downloaded into a new object URL (ok) or gives
\* undefined; then data_base64 gives a data: URL
normalizeStreamAttachmentFile(attachment, ok, urls) ==
  LET fetched == attachment.download = "protected" /\ ok
      src == IF attachment.download = "public" THEN [kind |-> "url", n |-> 1]
             ELSE IF fetched THEN [kind |-> "blob", n |-> urls + 1]
             ELSE IF attachment.b64 THEN [kind |-> "data", n |-> 1]
             ELSE NoSrc
  IN [src |-> src, urls |-> IF fetched THEN urls + 1 ELSE urls,
      failed |-> attachment.download = "protected" /\ ~ok]

\* the key of upsertAssistantFiles: the id, else the src
FileKey(attachment, src) ==
  IF attachment.id # "" THEN [id |-> attachment.id, src |-> NoSrc]
  ELSE [id |-> "", src |-> src]

HasKey(map, key) == \E i \in 1..Len(map) : map[i].key = key

\* upsertAssistantFiles(candidateList) on the chat state c
RECURSIVE upsertAssistantFiles(_, _, _)
upsertAssistantFiles(c, candidateList, ok) ==
  IF candidateList = <<>> THEN [chat |-> c, changed |-> FALSE]
  ELSE LET candidate == Head(candidateList) IN
    IF ~candidate.obj THEN upsertAssistantFiles(c, Tail(candidateList), ok)
    ELSE LET n == normalizeStreamAttachmentFile(candidate, ok, c.objectUrls)
             c1 == [c EXCEPT !.objectUrls = n.urls,
                             !.dlFailed = @ \/ n.failed]
             key == FileKey(candidate, n.src)
             add == n.src # NoSrc /\ ~HasKey(c.assistantFileMap, key)
             c2 == IF add
                   THEN [c1 EXCEPT !.assistantFileMap =
                                     Append(@, [key |-> key, src |-> n.src])]
                   ELSE c1
             rest == upsertAssistantFiles(c2, Tail(candidateList), ok)
         IN [chat |-> rest.chat, changed |-> add \/ rest.changed]

\* assistantFiles after syncAssistantFiles()
assistantFiles(c) == [i \in 1..Len(c.assistantFileMap) |-> c.assistantFileMap[i].src]

Response(kind) ==
  [kind |-> kind, role |-> "", text |-> <<>>, files |-> <<>>,
   overwrite |-> FALSE, error |-> ""]

\* ensureAssistantMessage() without "payload.overwrite = true"
ensureAssistantMessageNoOverwrite(c) ==
  [c EXCEPT !.responses = Append(@,
     [Response("message") EXCEPT
        !.role = IF c.assistantRole = "" THEN "assistant" ELSE c.assistantRole,
        !.text = c.assistantText,
        !.files = assistantFiles(c)]),
   !.pc = "emitting"]

\* ensureAssistantMessage() up to its await of signals.onResponse(payload)
ensureAssistantMessage(c) ==
  [c EXCEPT !.responses = Append(@,
     [Response("message") EXCEPT
        !.role = IF c.assistantRole = "" THEN "assistant" ELSE c.assistantRole,
        !.text = c.assistantText,
        !.files = assistantFiles(c),
        !.overwrite = c.hasAssistantMessage]),
   !.pc = "emitting"]

\* the catch of the connect handler takes an AbortError for a response
\* that failed
abortSurfacesAsError(c) ==
  [c EXCEPT !.pc = "failed",
            !.responses = Append(@, [Response("error") EXCEPT
                                       !.error = "The user aborted a request."])]

\* fetch or reader.read() rejects with AbortError: the catch of the connect
\* handler returns without a response
abortSurfaces(c) == [c EXCEPT !.pc = "aborted"]

\* processBuffer goes on with the next data line, or returns to the read
\* loop, whose reader.read() rejects once the controller has aborted
Continue(c) ==
  IF c.applied < Len(c.received) THEN [c EXCEPT !.pc = "processing"]
  ELSE IF c.aborted THEN abortSurfaces(c)
  ELSE [c EXCEPT !.pc = "reading"]

\* an error thrown in sendStreamingMessage reaches the catch of the connect
\* handler without signals.onResponse({error})
failStreamSilent(c, message) == [c EXCEPT !.pc = "failed"]

\* an error thrown in sendStreamingMessage reaches the catch of the connect
\* handler, which answers with the message
failStream(c, message) ==
  [c EXCEPT !.pc = "failed",
            !.responses = Append(@, [Response("error") EXCEPT
               !.error = IF NotBlank(message) THEN message
                         ELSE streamErrorMessage])]

\* processPayload(payload) for a parsed data line
processPayload(c, payload, ok) ==
  IF payload.kind = "scalar" THEN Continue(c)
  ELSE IF payload.kind = "error"
  THEN failStream(c, IF NotBlank(payload.err) THEN payload.err
                     ELSE streamErrorMessage)
  ELSE LET up == upsertAssistantFiles(c, payload.atts, ok)
           chunkHasRoleHint == payload.role # "" /\ ~c.hasAssistantMessage
           a1 == IF payload.content.form # "absent"
                 THEN appendContent(c.assistantText, payload.content)
                 ELSE [text |-> c.assistantText, appended |-> FALSE]
           a2 == IF payload.msg.form # "absent"
                 THEN appendContent(a1.text, payload.msg)
                 ELSE [text |-> a1.text, appended |-> FALSE]
           c1 == [up.chat EXCEPT
                    !.assistantRole = IF payload.role # "" THEN payload.role ELSE @,
                    !.assistantText = a2.text]
       IN IF a1.appended \/ a2.appended \/ up.changed \/ chunkHasRoleHint
          THEN ensureAssistantMessage(c1)
          ELSE Continue(c1)

\* ---------------------------------------------------- stream: steps

authVars == <<now, ticks, store, init, refresh, issued, gateway, reqs, fetcher,
              guard, login, logout, events, persisted, widget, wire>>

\* processBuffer with [DONE] taken as one more line to skip
processBufferNoDone(c, ok) ==
  LET dataLine == c.received[c.applied + 1]
      c0 == [c EXCEPT !.applied = @ + 1]
  IN IF dataLine.kind \in {"empty", "malformed", "done"} THEN Continue(c0)
     ELSE processPayload(c0, dataLine, ok)

\* processBuffer without the try around JSON.parse
processBufferNoCatch(c, ok) ==
  LET dataLine == c.received[c.applied + 1]
      c0 == [c EXCEPT !.applied = @ + 1]
  IN IF dataLine.kind = "empty" THEN Continue(c0)
     ELSE IF dataLine.kind = "done"
     THEN [c0 EXCEPT !.streamingFinished = TRUE, !.pc = "finishing"]
     ELSE IF dataLine.kind = "malformed" THEN failStream(c0, "Unexpected token")
     ELSE processPayload(c0, dataLine, ok)

\* processBuffer: the next data line of the complete events in the buffer
processBuffer(c, ok) ==
  LET dataLine == c.received[c.applied + 1]
      c0 == [c EXCEPT !.applied = @ + 1]
  IN IF dataLine.kind = "empty" THEN Continue(c0)
     ELSE IF dataLine.kind = "done"
     THEN [c0 EXCEPT !.streamingFinished = TRUE, !.pc = "finishing"]
     ELSE IF dataLine.kind = "malformed" THEN Continue(c0)
     ELSE processPayload(c0, dataLine, ok)

\* authorizedFetch returned an ok response with a body
StreamOpen ==
  /\ chat.pc = "idle"
  /\ chat' = [chat EXCEPT !.pc = "reading"]
  /\ lastOp' = Op("StreamOpen", "none")
  /\ UNCHANGED authVars

\* the response is not ok: its detail, or the default message, is thrown
StreamRefused ==
  /\ chat.pc = "idle"
  /\ \E detail \in {"", "Thread not found"} : chat' = failStream(chat, detail)
  /\ lastOp' = Op("StreamRefused", "none")
  /\ UNCHANGED authVars

\* reader.read() delivers bytes up to the blank line of event e (whole), or
\* up to the last data line of e
Read(e, whole) ==
  /\ chat.pc = "reading"
  /\ chat.reads < MaxReads
  /\ LET c == [chat EXCEPT
                 !.reads = @ + 1,
                 !.received = IF whole THEN @ \o chat.partial \o e
                              ELSE @ \o chat.partial,
                 !.partial = IF whole THEN <<>> ELSE e]
     IN chat' = Continue(c)
  /\ lastOp' = Op("Read", "none")
  /\ UNCHANGED authVars

\* reader.read() reports the end of the body: an event without its blank
\* line stays in the buffer
ReadDone ==
  /\ chat.pc = "reading"
  /\ chat' = [chat EXCEPT !.pc = "finishing"]
  /\ lastOp' = Op("ReadDone", "none")
  /\ UNCHANGED authVars

\* the stop button calls controller.abort(): a pending fetch or
\* reader.read() rejects with AbortError at once; while
\* signals.onResponse(payload) is awaited nothing is pending on the transport
Abort ==
  /\ chat.pc \in {"idle", "reading", "emitting"}
  /\ ~chat.aborted
  /\ LET c == [chat EXCEPT !.aborted = TRUE]
     IN chat' = IF chat.pc = "emitting" THEN c ELSE abortSurfaces(c)
  /\ lastOp' = Op("Abort", "none")
  /\ UNCHANGED authVars

\* the data line has an attachment that buildAuthorizedObjectUrl downloads
Downloads(dataLine) ==
  /\ dataLine.kind = "chunk"
  /\ \E i \in 1..Len(dataLine.atts) :
       dataLine.atts[i].obj /\ dataLine.atts[i].download = "protected"

\* processBuffer takes one data line; ok: downloads of protected
\* attachments succeed; stop: the stop button is clicked during a download
ProcessLine(ok, stop) ==
  /\ chat.pc = "processing"
  /\ stop => ~chat.aborted /\ Downloads(chat.received[chat.applied + 1])
  /\ chat' = processBuffer([chat EXCEPT !.aborted = @ \/ stop], ok)
  /\ lastOp' = Op("ProcessLine", "none")
  /\ UNCHANGED authVars

\* signals.onResponse(payload) has resolved
Emitted ==
  /\ chat.pc = "emitting"
  /\ chat' = Continue([chat EXCEPT !.hasAssistantMessage = TRUE])
  /\ lastOp' = Op("Emitted", "none")
  /\ UNCHANGED authVars

\* the end of sendStreamingMessage without signals.onResponse({})
FinishNoCompletion ==
  /\ chat.pc = "finishing"
  /\ chat' = [chat EXCEPT !.pc = "completed", !.messageSent = TRUE]
  /\ lastOp' = Op("Finish", "none")
  /\ UNCHANGED authVars

\* after the read loop: a message if text was never shown, then the
\* completion update signals.onResponse({})
Finish ==
  /\ chat.pc = "finishing"
  /\ LET c == IF chat.assistantText # <<>> /\ ~chat.hasAssistantMessage
              THEN [ensureAssistantMessage(chat) EXCEPT !.hasAssistantMessage = TRUE]
              ELSE chat
     IN chat' = [c EXCEPT !.pc = "completed",
                          !.responses = Append(@, Response("completion")),
                          !.messageSent = TRUE]
  /\ lastOp' = Op("Finish", "none")
  /\ UNCHANGED authVars

\* ------------------------------------------------------ stream: send

\* the getter userId: the id of the profile, else the subject of the token
userId(s) == s.profile \/ s.accessTokenRef # Null

\* sendStreamingMessage up to its fetch, in a widget mounted after the
\* router guard's ensureInitialized(): without a sender id it throws, else
\* authorizedFetch starts with ensureValidAccessToken(). before: the session
\* at this point
SendStart ==
  /\ Macro
  /\ chat.pc = "idle"
  /\ fetcher.pc = "idle"
  /\ store.isInitialized
  /\ init.pc \in {"none", "done"}
  /\ LET c == [chat EXCEPT !.before = [sent |-> TRUE, store |-> store,
                                        calls |-> refresh.calls]]
     IN IF userId(store)
        THEN /\ chat' = [c EXCEPT !.pc = "sending"]
             /\ fetcher' = [fetcher EXCEPT !.pc = "f_run"]
        ELSE /\ chat' = failStream(c, "unauthorized")
             /\ fetcher' = fetcher
  /\ lastOp' = Op("SendStart", "none")
  /\ UNCHANGED <<widget, wire, persisted, now, ticks, store, init, refresh, issued, gateway,
                 reqs, guard, login, logout, events>>

\* sendStreamingMessage with a 401 response taken for the end of the session
SendSettledClearing ==
  /\ chat.pc = "sending"
  /\ fetcher.pc \in {"f_ok", "f_other", "f_401", "f_failed", "f_noToken"}
  /\ chat' = IF fetcher.pc = "f_ok" THEN [chat EXCEPT !.pc = "reading"]
             ELSE failStream(chat, "")
  /\ store' = IF fetcher.pc = "f_ok" THEN store ELSE forceLogout(store, now)
  /\ lastOp' = Op("SendSettled", "none")
  /\ UNCHANGED <<widget, wire, persisted, now, ticks, init, refresh, issued, gateway,
                 reqs, fetcher, guard, login, logout, events>>

\* authorizedFetch has settled: an ok response with a body is read as a
\* stream and one without a body fails, a response that is not ok fails with
\* its detail or the default message, a rejection fails with the message of
\* its error
SendSettled ==
  /\ chat.pc = "sending"
  /\ fetcher.pc \in {"f_ok", "f_other", "f_401", "f_failed", "f_noToken"}
  /\ \E detail \in {"", "Thread not found"}, body \in BOOLEAN :
       chat' = IF fetcher.pc = "f_ok"
               THEN IF body THEN [chat EXCEPT !.pc = "reading"]
                    ELSE failStream(chat, streamErrorMessage)
               ELSE IF fetcher.pc \in {"f_other", "f_401"}
               THEN failStream(chat, detail)
               ELSE failStream(chat, "Session expired")
  /\ lastOp' = Op("SendSettled", "none")
  /\ UNCHANGED authVars

\* ------------------------------------------- history and object URLs

sessionVars == <<now, ticks, store, init, refresh, issued, gateway, reqs,
                 fetcher, guard, login, logout, events, persisted, chat, wire>>

\* props.history: the files of its message, each with a protected src (an
\* /attachments/ URL of the API) or a public one
HistoryInputs ==
  {<<>>, <<"protected">>, <<"public", "protected">>}

\* object URLs created and not revoked
Live(w) == {u \in 1..Len(w.created) : u \notin w.revoked}

\* revokeObjectUrls(bucket), before the bucket is cleared or replaced
revokeObjectUrls(w, bucket) == [w EXCEPT !.revoked = @ \cup bucket]

\* buildHistoryPlaceholder: the files whose src is not protected
buildHistoryPlaceholder(files) == SelectSeq(files, LAMBDA f : f.kind # "protected")

\* the finally block without the test of the hydration token
hydrateFinallyNoToken(w, hydrationId) ==
  LET h == w.hydrations[hydrationId]
      w1 == [w EXCEPT !.hydrations[hydrationId].settled = TRUE]
  IN [revokeObjectUrls(w1, w.activeHistoryObjectUrls) EXCEPT
        !.activeHistoryObjectUrls = h.pendingUrls,
        !.hydratedHistory = [id |-> hydrationId, cloned |-> TRUE, files |-> h.files]]

\* the finally block revoking pendingUrls also for the latest hydration
hydrateFinallyRevokePending(w, hydrationId) ==
  LET h == w.hydrations[hydrationId]
      w1 == [w EXCEPT !.hydrations[hydrationId].settled = TRUE]
  IN IF hydrationId = w.historyHydrationToken
     THEN [revokeObjectUrls(w1, w.activeHistoryObjectUrls \cup h.pendingUrls)
             EXCEPT !.activeHistoryObjectUrls = h.pendingUrls,
                    !.hydratedHistory = [id |-> hydrationId, cloned |-> TRUE,
                                         files |-> h.files]]
     ELSE revokeObjectUrls(w1, h.pendingUrls)

\* the finally block of hydrateHistoryMessages: the latest hydration
\* replaces the active URLs and the history, a superseded one revokes its own
hydrateFinally(w, hydrationId) ==
  LET h == w.hydrations[hydrationId]
      w1 == [w EXCEPT !.hydrations[hydrationId].settled = TRUE]
  IN IF hydrationId = w.historyHydrationToken
     THEN [revokeObjectUrls(w1, w.activeHistoryObjectUrls) EXCEPT
             !.activeHistoryObjectUrls = h.pendingUrls,
             !.hydratedHistory = [id |-> hydrationId, cloned |-> TRUE,
                                  files |-> h.files]]
     ELSE revokeObjectUrls(w1, h.pendingUrls)

\* the watcher of props.history calls hydrateHistoryMessages: the placeholder
\* is shown and the protected files are fetched; with none to fetch the
\* finally block runs before any other task
Hydrate(input) ==
  /\ widget.mounted
  /\ widget.historyHydrationToken < MaxHydrations
  /\ LET hydrationId == widget.historyHydrationToken + 1
         files == [i \in 1..Len(input) |-> [kind |-> input[i], n |-> i]]
         outstanding == {i \in 1..Len(input) : input[i] = "protected"}
         w == [widget EXCEPT
                 !.historyHydrationToken = hydrationId,
                 !.hydrations = Append(@, [files |-> files,
                                           outstanding |-> outstanding,
                                           pendingUrls |-> {},
                                           settled |-> FALSE]),
                 !.hydratedHistory = [id |-> hydrationId, cloned |-> FALSE,
                                      files |-> buildHistoryPlaceholder(files)]]
     IN widget' = IF outstanding = {} THEN hydrateFinally(w, hydrationId) ELSE w
  /\ lastOp' = Op("Hydrate", "none")
  /\ UNCHANGED sessionVars

\* buildAuthorizedObjectUrl of file index of a hydration settles: with a
\* response that is ok the file gets a new object URL, kept in pendingUrls;
\* otherwise the file is left as it is. The last one to settle runs the
\* finally block
HistoryFetched(hydrationId, index, ok) ==
  /\ hydrationId \in 1..Len(widget.hydrations)
  /\ index \in widget.hydrations[hydrationId].outstanding
  /\ ok => Len(widget.created) < MaxUrls
  /\ LET url == Len(widget.created) + 1
         w == IF ok
              THEN [widget EXCEPT
                      !.created = Append(@, [by |-> "history", id |-> hydrationId]),
                      !.hydrations[hydrationId].pendingUrls = @ \cup {url},
                      !.hydrations[hydrationId].files[index] =
                          [kind |-> "blob", n |-> url],
                      !.hydrations[hydrationId].outstanding = @ \ {index}]
              ELSE [widget EXCEPT
                      !.hydrations[hydrationId].outstanding = @ \ {index}]
     IN widget' = IF w.hydrations[hydrationId].outstanding = {}
                  THEN hydrateFinally(w, hydrationId)
                  ELSE w
  /\ lastOp' = Op("HistoryFetched", "none")
  /\ UNCHANGED sessionVars

\* a streamed message brings a protected attachment: buildAuthorizedObjectUrl
\* starts its download
AttachmentRequested ==
  /\ widget.mounted
  /\ widget.historyHydrationToken > 0
  /\ widget.messages < MaxMessages
  /\ widget' = [widget EXCEPT !.messages = @ + 1,
                              !.downloads = Append(@, "pending")]
  /\ lastOp' = Op("AttachmentRequested", "none")
  /\ UNCHANGED sessionVars

\* the download of the attachment of a streamed message settles: with a
\* response that is ok its object URL is kept in streamObjectUrls
AttachmentFetched(message, ok) ==
  /\ message \in 1..Len(widget.downloads)
  /\ widget.downloads[message] = "pending"
  /\ ok => Len(widget.created) < MaxUrls
  /\ LET url == Len(widget.created) + 1
     IN widget' =
          IF ok
          THEN [widget EXCEPT
                  !.created = Append(@, [by |-> "stream", id |-> message]),
                  !.streamObjectUrls = @ \cup {url},
                  !.downloads[message] = "done"]
          ELSE [widget EXCEPT !.downloads[message] = "failed"]
  /\ lastOp' = Op("AttachmentFetched", "none")
  /\ UNCHANGED sessionVars

\* onBeforeUnmount: releaseSecureObjectUrls revokes and clears both buckets
Unmount ==
  /\ widget.mounted
  /\ widget.historyHydrationToken > 0
  /\ LET w == revokeObjectUrls(revokeObjectUrls(widget, widget.streamObjectUrls),
                               widget.activeHistoryObjectUrls)
     IN widget' = [w EXCEPT !.mounted = FALSE,
                            !.streamObjectUrls = {},
                            !.activeHistoryObjectUrls = {}]
  /\ lastOp' = Op("Unmount", "none")
  /\ UNCHANGED sessionVars

\* ------------------------------------------------- stream: the buffer

wireFrame == <<now, ticks, store, init, refresh, issued, gateway, reqs,
               fetcher, guard, login, logout, events, persisted, chat, widget>>

\* the text of a body is a sequence of characters
NL == "\n"
DataPrefix == <<"d", "a", "t", "a", ":">>
DoneText == <<"[", "D", "O", "N", "E", "]">>

\* a JSON chunk is written as one letter, the content of its delta; any other
\* payload is text JSON.parse rejects
Letters == {"H", "L", "o"}

\* the texts a server sends, each delivered whole or up to any character
StreamTexts ==
  { DataPrefix \o <<" ", "H", NL, NL>> \o DataPrefix \o <<" ", "L", NL, NL>>
      \o DataPrefix \o <<" ">> \o DoneText \o <<NL, NL>>,
    DataPrefix \o <<"H", NL>> \o DataPrefix \o <<"L", NL, NL>>
      \o <<":", "k", NL, NL>> \o DataPrefix \o <<"{", NL, NL>>
      \o DataPrefix \o <<"o">>,
    DataPrefix \o <<"H", NL, NL, NL>> \o DataPrefix \o DoneText \o <<NL>>
      \o DataPrefix \o <<"L", NL, NL>> \o DataPrefix \o <<"o", NL, NL>> }

\* buffer.indexOf('\n\n') counted from 1; 0 when there is none
RECURSIVE indexOfDelimiter(_, _)
indexOfDelimiter(buffer, from) ==
  IF from >= Len(buffer) THEN 0
  ELSE IF buffer[from] = NL /\ buffer[from + 1] = NL THEN from
  ELSE indexOfDelimiter(buffer, from + 1)

IsSpace(c) == c \in {" ", NL}

\* String.prototype.trim()
RECURSIVE trimStart(_)
trimStart(t) ==
  IF t # <<>> /\ IsSpace(Head(t)) THEN trimStart(Tail(t)) ELSE t

RECURSIVE trimEnd(_)
trimEnd(t) ==
  IF t # <<>> /\ IsSpace(t[Len(t)]) THEN trimEnd(SubSeq(t, 1, Len(t) - 1)) ELSE t

trim(t) == trimEnd(trimStart(t))

\* rawEvent.split('\n')
RECURSIVE splitLines(_, _)
splitLines(t, line) ==
  IF t = <<>> THEN <<line>>
  ELSE IF Head(t) = NL THEN <<line>> \o splitLines(Tail(t), <<>>)
  ELSE splitLines(Tail(t), Append(line, Head(t)))

startsWithData(line) ==
  Len(line) >= Len(DataPrefix) /\ SubSeq(line, 1, Len(DataPrefix)) = DataPrefix

\* .filter((line) => line.startsWith('data:')).map((line) => line.slice(5).trim())
RECURSIVE dataLinesOf(_)
dataLinesOf(lines) ==
  IF lines = <<>> THEN <<>>
  ELSE IF startsWithData(Head(lines))
  THEN <<trim(SubSeq(Head(lines), Len(DataPrefix) + 1, Len(Head(lines))))>>
       \o dataLinesOf(Tail(lines))
  ELSE dataLinesOf(Tail(lines))

\* the for loop of processBuffer over the data lines of one event
RECURSIVE wireDataLines(_, _)
wireDataLines(w, dataLines) ==
  IF dataLines = <<>> THEN w
  ELSE LET dataLine == Head(dataLines) IN
    IF dataLine = <<>> THEN wireDataLines(w, Tail(dataLines))
    ELSE IF dataLine = DoneText THEN [w EXCEPT !.streamingFinished = TRUE]
    ELSE IF Len(dataLine) = 1 /\ dataLine[1] \in Letters
    THEN LET text == w.assistantText \o dataLine
         IN wireDataLines([w EXCEPT !.assistantText = text,
                                    !.emitted = Append(@, text)],
                          Tail(dataLines))
    ELSE wireDataLines(w, Tail(dataLines))

\* processBuffer on the characters of the buffer
RECURSIVE wireProcessBuffer(_)
wireProcessBuffer(w) ==
  IF w.streamingFinished THEN w
  ELSE LET separatorIndex == indexOfDelimiter(w.buffer, 1) IN
    IF separatorIndex = 0 THEN w
    ELSE LET rawEvent == SubSeq(w.buffer, 1, separatorIndex - 1)
             w1 == [w EXCEPT !.buffer = SubSeq(@, separatorIndex + 2, Len(@))]
         IN IF trim(rawEvent) = <<>> THEN wireProcessBuffer(w1)
            ELSE wireProcessBuffer(
                   wireDataLines(w1, dataLinesOf(splitLines(rawEvent, <<>>))))

\* "buffer = decoder.decode(value)": what the last read left is dropped
replaceBuffer(buffer, value) == value

\* buffer += decoder.decode(value, { stream: true })
appendToBuffer(buffer, value) == buffer \o value

\* the response of the server has arrived
WireOpen(text) ==
  /\ wire.pc = "idle"
  /\ wire' = [wire EXCEPT !.pc = "reading", !.text = text]
  /\ lastOp' = Op("WireOpen", "none")
  /\ UNCHANGED wireFrame

\* reader.read() delivers the next n characters: they are added to the
\* buffer and processBuffer runs; after [DONE] the read loop ends
WireRead(n) ==
  /\ wire.pc = "reading"
  /\ wire.reads < MaxWireReads
  /\ n \in 1..(Len(wire.text) - wire.pos)
  /\ LET value == SubSeq(wire.text, wire.pos + 1, wire.pos + n)
         w == wireProcessBuffer(
                [wire EXCEPT !.buffer = appendToBuffer(@, value),
                             !.pos = @ + n, !.reads = @ + 1,
                             !.cuts = @ \cup {wire.pos + n}])
     IN wire' = [w EXCEPT !.pc = IF w.streamingFinished THEN "done" ELSE "reading"]
  /\ lastOp' = Op("WireRead", "none")
  /\ UNCHANGED wireFrame

\* reader.read() reports the end of the body, after any character of the
\* text: processBuffer runs once more and the read loop ends
WireEnd ==
  /\ wire.pc = "reading"
  /\ wire' = [wireProcessBuffer(wire) EXCEPT !.pc = "done"]
  /\ lastOp' = Op("WireEnd", "none")
  /\ UNCHANGED wireFrame

\* ------------------------------------------------------------------- Next

\* the store's own steps: the clock, /auth/refresh, the restore
StoreNext ==
  \/ Tick
  \/ RefreshOk
  \/ RefreshFail
  \/ MainInit
  \/ InitGot
  \/ InitProfileOk
  \/ InitProfileFail
  \/ InitFinally

RequestNext(R) ==
  \/ \E r \in R, skip \in BOOLEAN : ReqStart(r, skip)
  \/ \E r \in R : ReqRun(r)
  \/ \E r \in R : ReqGot(r)
  \/ \E r \in R : Resp200(r)
  \/ \E r \in R : RespError(r)
  \/ \E r \in R : Resp401(r)
  \/ \E r \in R : RefresherGot(r)

FetchNext ==
  \/ FetchStart
  \/ FetchRun
  \/ FetchGot1
  \/ FetchResponse
  \/ Fetch401
  \/ FetchGot2
  \/ Fetch401Again

GuardNext ==
  \/ GuardStart
  \/ \E b \in BOOLEAN : GuardRun(b)

LoginNext ==
  \/ LoginStart
  \/ LoginExchangeOk
  \/ LoginFail
  \/ LoginProfileOk

LogoutNext ==
  \/ LogoutStart
  \/ LogoutRun
  \/ LogoutSettled

\* one request, or all but one, beside the other callers of the store
OneReq == {NReq}
TwoReqs == Reqs \ OneReq

\* every caller of refreshTokens() and ensureValidAccessToken()
Next == StoreNext \/ RequestNext(OneReq) \/ FetchNext \/ GuardNext \/ LogoutNext

\* the gateway: concurrent axios requests over the store
GatewayNext == StoreNext \/ RequestNext(Reqs)

\* the session: the store under login, logout, navigation and authorizedFetch
SessionNext == StoreNext \/ FetchNext \/ GuardNext \/ LoginNext \/ LogoutNext

Spec == Init /\ [][Next]_vars
SpecGateway == Init /\ [][GatewayNext]_vars
SpecSession == Init /\ [][SessionNext]_vars

\* requests that meet a 401 beside an authorizedFetch that meets one
RetryNext == StoreNext \/ RequestNext(TwoReqs) \/ FetchNext
SpecRetry == Init /\ [][RetryNext]_vars

\* requests of the application, among them requests to the public auth
\* endpoints issued through DefaultAPIInstance
PublicNext(R) == \E r \in R, skip \in BOOLEAN : ReqStartPublic(r, skip)
AuthFlowNext == StoreNext \/ RequestNext(TwoReqs) \/ PublicNext(TwoReqs)
SpecAuthFlow == Init /\ [][AuthFlowNext]_vars

\* token responses persisted and read back as time passes
PersistNext ==
  \/ Tick
  \/ \E la, lr \in Lifetimes : Persist(la, lr)
  \/ Reload
SpecPersist == Init /\ [][PersistNext]_vars

\* one streamed reply of the chat widget
ChatNext ==
  \/ StreamOpen
  \/ StreamRefused
  \/ \E e \in Events, whole \in BOOLEAN : Read(e, whole)
  \/ ReadDone
  \/ Abort
  \/ \E ok, stop \in BOOLEAN : ProcessLine(ok, stop)
  \/ Emitted
  \/ Finish
SpecChat == Init /\ [][ChatNext]_vars

\* the events of a short reply
SendEvents ==
  { <<ErrorLine(ProviderError)>>, <<Chunk("assistant", Str(Hel), Absent, <<>>)>>,
    <<Line("done")>> }

\* one message sent through authorizedFetch while the session ages and is
\* refreshed
SendNext ==
  \/ Tick
  \/ RefreshOk
  \/ RefreshFail
  \/ MainInit
  \/ InitGot
  \/ InitProfileOk
  \/ InitProfileFail
  \/ InitFinally
  \/ SendStart
  \/ FetchRun
  \/ FetchGot1
  \/ FetchResponse
  \/ Fetch401
  \/ FetchGot2
  \/ Fetch401Again
  \/ SendSettled
  \/ \E e \in SendEvents : Read(e, TRUE)
  \/ ReadDone
  \/ ProcessLine(TRUE, FALSE)
  \/ Emitted
  \/ Finish
SpecSend == Init /\ [][SendNext]_vars

\* the history and the object URLs of one chat widget
HistoryNext ==
  \/ \E input \in HistoryInputs : Hydrate(input)
  \/ \E hydrationId \in 1..MaxHydrations, index \in 1..2, ok \in BOOLEAN :
       HistoryFetched(hydrationId, index, ok)
  \/ AttachmentRequested
  \/ \E message \in 1..MaxMessages, ok \in BOOLEAN : AttachmentFetched(message, ok)
  \/ Unmount
SpecHistory == Init /\ [][HistoryNext]_vars

\* one response body delivered in reads of any sizes
WireNext ==
  \/ \E text \in StreamTexts : WireOpen(text)
  \/ \E n \in 1..Len(wire.text) : WireRead(n)
  \/ WireEnd
SpecWire == Init /\ [][WireNext]_vars

\* ----------------------------------------------------------------- claims

\* somebody awaits refreshPromise
AwaitsRefresh ==
  \/ init.pc = "i_refresh"
  \/ \E r \in Reqs : reqs[r].pc \in {"ri_refresh", "rf_refresh"}
  \/ fetcher.pc \in {"f_refresh1", "f_refresh2"}

\* C1 as stated: at most one /auth/refresh call is in flight, and every
\* refreshTokens() call made while a refresh is pending receives the pending
\* promise.
C1_EveryCallJoins ==
  /\ [](refresh.inFlight <= 1)
  /\ [][(refresh.promise /\ lastOp'.rt # "none") => lastOp'.rt = "join"]_vars

\* C1 amended: at most one /auth/refresh call is in flight and nobody awaits
\* a refresh that is not in flight; a refreshTokens() call made while a
\* refresh is pending issues no second call: it receives the pending promise
\* when the store holds a valid refresh token and fails at once with
\* "Session expired" when it does not.
C1_SingleFlight ==
  /\ [](refresh.inFlight <= 1)
  /\ [](AwaitsRefresh => refresh.promise /\ refresh.inFlight = 1)
  /\ [][(refresh.promise /\ lastOp'.rt # "none") =>
          /\ refresh' = refresh
          /\ lastOp'.rt = IF hasValidRefreshToken(store, now)
                           THEN "join" ELSE "throw"]_vars

\* a caller has just joined the refresh in flight
C1_Joined == refresh.inFlight = 1 /\ lastOp.rt = "join"

\* C2 as stated: however many requests are rejected with a 401 for the same
\* access token, and whenever their 401 responses arrive, one /auth/refresh
\* call is made for that token: no token is the cause of two refresh calls.
C2_OneRefreshPerExpiredToken ==
  \A i, j \in 1..Len(refresh.cause) :
     i # j => refresh.cause[i] # refresh.cause[j]

\* C3: no request is reissued twice: a request is reissued at most once, a
\* request in the queue or acting as refresher has not been reissued before
\* and the queue holds no request marked as retry; authorizedFetch sends at
\* most two fetches.
C3_NoSecondReissue ==
  /\ \A r \in Reqs :
       /\ reqs[r].reissues <= 1
       /\ reqs[r].pc = "queued" => ~reqs[r].isRetry /\ reqs[r].reissues = 0
       /\ reqs[r].pc \in {"rf_refresh", "rf_got"} => reqs[r].reissues = 0
       /\ reqs[r].reissues = 1 => reqs[r].isRetry
  /\ \A i, j \in 1..Len(gateway.reissued) :
       i # j => gateway.reissued[i] # gateway.reissued[j]
  /\ fetcher.sent <= 2

\* a reissued request and the repeated fetch have met a second 401, which
\* went to their callers
C3_Retried401 ==
  /\ \E r \in Reqs : reqs[r].reissues = 1 /\ reqs[r].pc = "rej401"
  /\ fetcher.sent = 2 /\ fetcher.pc = "f_401"

\* request r receives a 401 in this step
Got401(r) == reqs[r].pc = "sent" /\ reqs'[r].pc \in {"rej401", "queued", "rf_refresh"}

\* a queued request leaves the queue only when the refresher x resumes after
\* its refresh settled, with that refresh's outcome; on success the queue is
\* reissued in its order, then the refresher
Drained(r) ==
  \E x \in Reqs :
    /\ reqs[x].pc = "rf_got"
    /\ gateway'.queue = <<>>
    /\ \/ /\ refresh.outcome = "ok"
          /\ reqs'[r].pc = "ri_run" /\ reqs'[r].tok = refresh.token
          /\ reqs'[r].isRetry
          /\ reqs'[x].pc = "ri_run" /\ reqs'[x].tok = refresh.token
          /\ gateway'.reissued = gateway.reissued \o gateway.queue \o <<x>>
       \/ /\ refresh.outcome = "fail"
          /\ reqs'[r].pc = "rejRefresh"
          /\ reqs'[x].pc = "rejRefresh"

\* a reissued request goes out with the token of the refresh
SentRefreshed(r) ==
  (reqs[r].pc = "ri_run" /\ reqs[r].reissues = 1 /\ reqs'[r].pc = "sent")
    => refresh.outcome = "ok" /\ reqs'[r].tok = refresh.token

\* C4 as stated: every request (not a retry, not skip-refresh) that receives
\* a 401 while the gateway is refreshing is enqueued, and leaves the queue
\* only when that refresh has settled, in enqueue order and with its outcome.
C4_EveryRequestQueued ==
  [][\A r \in Reqs :
       /\ (Got401(r) /\ gateway.isRefreshing /\ ~reqs[r].isRetry /\ ~reqs[r].skip)
            => reqs'[r].pc = "queued" /\ gateway'.queue = Append(gateway.queue, r)
       /\ (reqs[r].pc = "queued" /\ reqs'[r].pc # "queued") => Drained(r)
       /\ SentRefreshed(r)]_vars

\* C4 amended: the same for every such request that receives its 401 while
\* the store holds a valid refresh token; without one the request is
\* rejected at once with its 401 and the session is dropped.
C4_QueuedShareRefresh ==
  [][\A r \in Reqs :
       /\ (Got401(r) /\ gateway.isRefreshing /\ ~reqs[r].isRetry /\ ~reqs[r].skip)
            => IF hasValidRefreshToken(store, now)
               THEN /\ reqs'[r].pc = "queued"
                    /\ gateway'.queue = Append(gateway.queue, r)
               ELSE reqs'[r].pc = "rej401" /\ Cleared(store')
       /\ (reqs[r].pc = "queued" /\ reqs'[r].pc # "queued") => Drained(r)
       /\ SentRefreshed(r)]_vars

\* two queued requests and the refresher have been reissued and sent with
\* the token of the one refresh
C4_AllReissued ==
  /\ Len(gateway.reissued) = NReq
  /\ refresh.calls = 1
  /\ \A r \in Reqs : reqs[r].pc = "sent" /\ reqs[r].tok = refresh.token

\* C5 as stated: in every reachable state the session status is
\* "authenticated" exactly when the access token or the refresh token is
\* present and expires more than TOKEN_EXPIRY_BUFFER_MS from now.
C5_StatusTracksTokens ==
  store.sessionStatus = "authenticated" <=>
    (hasValidAccessToken(store, now) \/ hasValidRefreshToken(store, now))

\* the session status rises, or falls, in this step
StatusUp ==
  store.sessionStatus = "anonymous" /\ store'.sessionStatus = "authenticated"

StatusDown ==
  store.sessionStatus = "authenticated" /\ store'.sessionStatus = "anonymous"

\* steps that persist a token pair; steps that end the session on a failed
\* refresh, a logout or a 401 without a valid refresh token
PersistSteps == {"LoginExchangeOk", "RefreshOk"}

EndSteps == {"RefreshFail", "RefresherFail", "FetchRetryFail", "Logout",
             "Resp401Force", "Fetch401Force"}

RestoreSteps == {"MainInit", "ReqStart", "FetchStart", "GuardStart",
                 "LogoutStart", "InitProfileFail", "InitFinally"}

LoginEndSteps == {"LoginExchangeFail", "LoginProfileFail", "LoginOk"}

AwaitersResumed ==
  /\ \A r \in Reqs :
       /\ reqs[r].pc = "ri_refresh" => reqs'[r].pc = "ri_got"
       /\ reqs[r].pc = "rf_refresh" => reqs'[r].pc = "rf_got"
  /\ fetcher.pc = "f_refresh1" => fetcher'.pc = "f_got1"
  /\ fetcher.pc = "f_refresh2" => fetcher'.pc = "f_got2"
  /\ init.pc = "i_refresh" => init'.pc = "i_got"

\* a caller resumed by a failed refresh takes its error path in this step:
\* the restore and authorizedFetch fail, the refresher is rejected, the
\* request interceptor enters its catch
FailureReceived ==
  /\ init.pc = "i_got" /\ init'.pc # "i_got" => init'.failed
  /\ fetcher.pc = "f_got1" /\ fetcher'.pc # "f_got1" => fetcher'.pc = "f_noToken"
  /\ fetcher.pc = "f_got2" /\ fetcher'.pc # "f_got2" => fetcher'.pc = "f_failed"
  /\ \A r \in Reqs :
       /\ reqs[r].pc = "rf_got" /\ reqs'[r].pc # "rf_got"
            => reqs'[r].pc = "rejRefresh"
       /\ reqs[r].pc = "ri_got" /\ reqs'[r].pc # "ri_got" => reqs'[r].fellBack

\* C7: refreshTokens() called without a valid refresh token throws and
\* issues no /auth/refresh call; when the /auth/refresh call fails the four
\* token fields and the profile are cleared in memory and in storage, the
\* status is anonymous, one auth:logout is emitted, refreshPromise is
\* dropped and every caller that shared the refresh resumes with the error.
C7_RefreshFailsClosed ==
  [][/\ (lastOp'.rt # "none" /\ ~hasValidRefreshToken(store, now))
          => (lastOp'.rt = "throw" /\ refresh' = refresh)
     /\ lastOp'.rt = "throw" => refresh'.calls = refresh.calls
     /\ lastOp'.op = "RefreshFail" =>
          /\ Cleared(store')
          /\ store'.defaultAuthorization = Null
          /\ store'.sessionStatus = "anonymous"
          /\ events'.logout = events.logout + 1
          /\ refresh'.outcome = "fail" /\ ~refresh'.promise
          /\ refresh'.calls = refresh.calls
          /\ AwaitersResumed
     /\ refresh.outcome = "fail" => FailureReceived]_vars

\* the /auth/refresh call shared by a request and authorizedFetch has failed
C7_SharedFailure ==
  /\ lastOp.op = "RefreshFail"
  /\ fetcher.pc \in {"f_got1", "f_got2"}
  /\ \E r \in Reqs : reqs[r].pc \in {"ri_got", "rf_got"}
  /\ Cleared(store)

\* authorizedFetch got no token: its caller has the error and no fetch went
\* out
FetchSurfaced == fetcher.pc = "f_noToken" => fetcher.sent = 0 /\ fetcher.tok = Null

AwaitsInit ==
  \/ \E r \in Reqs : reqs[r].pc = "ri_init"
  \/ fetcher.pc = "f_init"
  \/ guard.pc = "g_init"
  \/ logout.pc = "lo_init"

\* a caller that awaited initializePromise resumes in this step
ResumesFromInit ==
  \/ \E r \in Reqs : reqs[r].pc = "ri_init" /\ reqs'[r].pc # "ri_init"
  \/ fetcher.pc = "f_init" /\ fetcher'.pc # "f_init"
  \/ guard.pc = "g_init" /\ guard'.pc # "g_init"
  \/ logout.pc = "lo_init" /\ logout'.pc # "lo_init"

\* the steps that call ensureInitialized()
InitCallers == {"MainInit", "ReqStart", "FetchStart", "GuardStart", "LogoutStart"}

\* C9: the restore runs at most once, with at most one refresh and one
\* profile fetch; whoever calls ensureInitialized() before it completes
\* awaits the one initializePromise and resumes only in the step that
\* completes it; a call made once isInitialized holds changes nothing,
\* refreshes nothing and fetches no profile.
C9_OneRestore ==
  /\ [](init.runs <= 1 /\ init.refreshes <= 1 /\ init.profiles <= 1)
  /\ [](AwaitsInit => init.promise /\ ~store.isInitialized)
  /\ [][ResumesFromInit =>
          /\ lastOp'.op = "InitFinally"
          /\ store'.isInitialized /\ ~init'.promise /\ ~AwaitsInit']_vars
  /\ [][(lastOp'.op \in InitCallers /\ ~store.isInitialized /\ init.promise)
          => (init' = init /\ store' = store /\ refresh' = refresh /\ AwaitsInit')]_vars
  /\ [][(lastOp'.op \in InitCallers /\ store.isInitialized)
          => (init' = init /\ store' = store /\ refresh' = refresh)]_vars

\* the navigation and authorizedFetch both awaited the one restore, which
\* has just completed
C9_BothResumed ==
  /\ lastOp.op = "InitFinally"
  /\ guard.pc = "g_run" /\ fetcher.pc = "f_run"
  /\ init.runs = 1 /\ init.profiles = 1

\* the restore fails in this step: no valid refresh token when it starts,
\* a failed refresh, a failed profile fetch
RestoreFails ==
  \/ /\ lastOp'.op \in InitCallers /\ init'.runs > init.runs
     /\ ~hasValidRefreshToken(store, now)
  \/ lastOp'.op = "InitGot" /\ refresh.outcome = "fail"
  \/ lastOp'.op = "InitProfileFail"

\* C10: when the restore finds no valid refresh token, or its refresh or
\* its profile fetch fails, the session is cleared at once and the restore
\* goes on to complete; when it completes after a failure the session is
\* cleared, the status is anonymous, isInitialized is true and every caller
\* resumes in its normal path.
C10_RestoreFailsOpen ==
  [][/\ RestoreFails =>
          /\ Cleared(store') /\ store'.sessionStatus = "anonymous"
          /\ init'.failed /\ init'.pc = "i_finally"
     /\ (lastOp'.op = "InitFinally" /\ init.failed) =>
          /\ Cleared(store') /\ store'.sessionStatus = "anonymous"
          /\ store'.isInitialized
          /\ \A r \in Reqs : reqs[r].pc = "ri_init" => reqs'[r].pc = "ri_run"
          /\ fetcher.pc = "f_init" => fetcher'.pc = "f_run"
          /\ guard.pc = "g_init" => guard'.pc = "g_run"
          /\ logout.pc = "lo_init" => logout'.pc = "lo_run"
     /\ lastOp'.op = "InitFinally" => store'.isInitialized]_vars

\* the restore of a stored session has completed after its profile fetch
\* failed, and the navigation that awaited it resumes
C10_FailedRestoreCompleted ==
  /\ lastOp.op = "InitFinally"
  /\ init.failed /\ init.profiles = 1
  /\ guard.pc = "g_run"
  /\ Cleared(store) /\ store.isInitialized

\* C11: when login() fails, at the token exchange or at the profile fetch
\* that follows it, no token and no profile is left in memory or in
\* storage, the status is anonymous, no auth:login is emitted,
\* isAuthenticating is false again and the caller has the error.
C11_FailedLoginLeavesNothing ==
  [][lastOp'.op \in {"LoginExchangeFail", "LoginProfileFail"} =>
       /\ Cleared(store') /\ store'.defaultAuthorization = Null
       /\ store'.sessionStatus = "anonymous"
       /\ ~store'.isAuthenticating
       /\ events'.login = events.login
       /\ login'.pc = "l_failed"]_vars

\* login() has failed at its profile fetch, after its token pair had been
\* persisted
C11_ProfileFetchFailed ==
  /\ lastOp.op = "LoginProfileFail"
  /\ login.pc = "l_failed"
  /\ issued > 0 /\ store.lsAccessToken = Null /\ events.login = 0

\* the steps that run forceLogout()
ForceSteps == {"Resp401Force", "Fetch401Force", "RefresherFail", "FetchRetryFail"}

\* C12: the step that ends logout(), with or without the server having
\* been notified, leaves no token and no profile, the status anonymous, and
\* emits one auth:logout, and no other step of logout() emits one;
\* forceLogout() does the same and starts no network call.
C12_LogoutClears ==
  [][/\ lastOp'.op \in {"Logout"} \cup ForceSteps =>
          /\ Cleared(store') /\ store'.defaultAuthorization = Null
          /\ store'.sessionStatus = "anonymous"
          /\ store'.isInitialized
          /\ events'.logout = events.logout + 1
          /\ events'.login = events.login
     /\ lastOp'.op = "Logout" => logout'.pc = "lo_done"
     /\ lastOp'.op \in {"LogoutStart", "LogoutRun"} =>
          events' = events /\ logout'.pc # "lo_done"
     /\ lastOp'.op \in ForceSteps =>
          /\ refresh' = refresh /\ logout' = logout
          /\ fetcher'.sent = fetcher.sent]_vars

\* logout() has ended after POST /auth/logout, for a session that had
\* tokens, with its one auth:logout
C12_LoggedOut ==
  /\ lastOp.op = "Logout"
  /\ logout.pc = "lo_done"
  /\ issued > 0 /\ Cleared(store) /\ events.logout = 1
  /\ init.pc = "done" /\ ~init.failed

\* C13: a request that is neither a retry nor skip-refresh and receives a
\* 401 while no valid refresh token exists is rejected with that 401 in
\* the same step: the session is cleared with one auth:logout, no refresh
\* is called, the request is neither enqueued nor reissued; authorizedFetch
\* returns the 401 response in the same way.
C13_NoRefreshTokenForcesLogout ==
  [][/\ \A r \in Reqs :
          (Got401(r) /\ ~reqs[r].skip /\ ~reqs[r].isRetry
             /\ ~hasValidRefreshToken(store, now)) =>
            /\ Cleared(store') /\ store'.sessionStatus = "anonymous"
            /\ events'.logout = events.logout + 1
            /\ refresh' = refresh
            /\ gateway' = gateway
            /\ reqs'[r].pc = "rej401"
            /\ reqs'[r].reissues = reqs[r].reissues /\ ~reqs'[r].isRetry
     /\ (fetcher.pc = "f_sent1" /\ lastOp'.op \in {"Fetch401Force", "Fetch401Refresh"}
           /\ ~hasValidRefreshToken(store, now)) =>
            /\ Cleared(store') /\ store'.sessionStatus = "anonymous"
            /\ events'.logout = events.logout + 1
            /\ refresh' = refresh
            /\ fetcher'.pc = "f_401" /\ fetcher'.sent = fetcher.sent]_vars

\* a request has been rejected with its 401 while the gateway was
\* refreshing for another request
C13_RejectedDuringRefresh ==
  /\ lastOp.op = "Resp401Force"
  /\ gateway.isRefreshing /\ gateway.queue = <<>>
  /\ \E r \in Reqs : reqs[r].pc = "rej401" /\ ~reqs[r].isRetry /\ ~reqs[r].skip

C15_PersistRoundTrip ==
  /\ persisted.at # Null =>
       /\ store.lsAccessTokenExpiresAt = persisted.at +
            Max(persisted.expires_in * 1000 - TOKEN_EXPIRY_BUFFER_MS,
                TOKEN_EXPIRY_BUFFER_MS)
       /\ store.lsRefreshTokenExpiresAt = persisted.at +
            Max(persisted.refresh_expires_in * 1000 - TOKEN_EXPIRY_BUFFER_MS,
                TOKEN_EXPIRY_BUFFER_MS)
  /\ (lastOp.op = "Reload" /\ persisted.at = now) => hasValidAccessToken(store, now)
  /\ (lastOp.op = "Reload" /\ store.accessTokenExpiresAt # Null
        /\ now > store.accessTokenExpiresAt) => ~hasValidAccessToken(store, now)

\* the [DONE] sentinel is the last data line processBuffer took
DoneSeen == chat.applied > 0 /\ chat.received[chat.applied].kind = "done"

\* C16: once [DONE] has been seen, no further data line, event or read is
\* applied: the accumulated text, the role and the attachment map never
\* change again, and the only response that follows is the completion update.
C16_DoneStopsStream ==
  [][DoneSeen =>
       /\ chat.streamingFinished
       /\ chat.pc \in {"finishing", "completed"}
       /\ chat'.assistantText = chat.assistantText
       /\ chat'.assistantRole = chat.assistantRole
       /\ chat'.assistantFileMap = chat.assistantFileMap
       /\ chat'.applied = chat.applied
       /\ chat'.received = chat.received
       /\ chat'.reads = chat.reads
       /\ chat'.responses \in
            {chat.responses, Append(chat.responses, Response("completion"))}]_vars

\* a stream completed with a chunk behind [DONE] that was never applied
C16_ChunkAfterDoneDropped ==
  /\ chat.pc = "completed"
  /\ chat.streamingFinished
  /\ chat.assistantText # <<>>
  /\ chat.applied < Len(chat.received)
  /\ chat.received[chat.applied + 1].kind = "chunk"


\* the text of the string parts and {text} parts of a content value
RECURSIVE PartsText(_)
PartsText(parts) ==
  IF parts = <<>> THEN <<>>
  ELSE (IF Head(parts).t \in {"string", "text"} THEN Head(parts).s ELSE <<>>)
       \o PartsText(Tail(parts))

\* the content of a well-formed chunk; any other data line has none
ContentText(dataLine) ==
  IF dataLine.kind = "chunk"
  THEN PartsText(dataLine.content.parts) \o PartsText(dataLine.msg.parts)
  ELSE <<>>

RECURSIVE TextOf(_)
TextOf(dataLines) ==
  IF dataLines = <<>> THEN <<>>
  ELSE ContentText(Head(dataLines)) \o TextOf(Tail(dataLines))

\* the data lines received before the first [DONE]
RECURSIVE BeforeDone(_)
BeforeDone(dataLines) ==
  IF dataLines = <<>> \/ Head(dataLines).kind = "done" THEN <<>>
  ELSE <<Head(dataLines)>> \o BeforeDone(Tail(dataLines))

MessageResponses == {i \in 1..Len(chat.responses) : chat.responses[i].kind = "message"}

\* the last message response; 0 when there is none
LastMessage ==
  IF MessageResponses = {} THEN 0
  ELSE CHOOSE i \in MessageResponses : \A j \in MessageResponses : j <= i

\* C17: the accumulated text is the concatenation, in arrival order, of the
\* content of the well-formed chunks of the complete events taken so far, and
\* at completion of those received before [DONE]; a malformed data line adds
\* nothing and never fails the stream; a data line is taken only when the
\* emission of the one before has resolved.
C17_TextIsConcatenation ==
  /\ chat.assistantText = TextOf(SubSeq(chat.received, 1, chat.applied))
  /\ chat.pc = "completed" =>
       /\ chat.assistantText = TextOf(BeforeDone(chat.received))
       /\ chat.assistantText # <<>> =>
            /\ MessageResponses # {}
            /\ chat.responses[LastMessage].text = chat.assistantText
  /\ chat.pc = "failed" =>
       chat.applied = 0 \/ chat.received[chat.applied].kind = "error"
  /\ chat.pc = "emitting" =>
       /\ chat.responses # <<>>
       /\ chat.responses[Len(chat.responses)].kind = "message"
       /\ chat.responses[Len(chat.responses)].text = chat.assistantText
  /\ chat.pc # "emitting" => (chat.hasAssistantMessage <=> MessageResponses # {})

\* a stream completed with a malformed data line between two chunks with text
C17_MalformedBetweenChunks ==
  /\ chat.pc = "completed"
  /\ \E i, j, k \in 1..chat.applied :
       /\ i < j /\ j < k
       /\ ContentText(chat.received[i]) # <<>>
       /\ chat.received[j].kind = "malformed"
       /\ ContentText(chat.received[k]) # <<>>


\* the chunks {delta: {role: "assistant", content: "Hel"}},
\* {delta: {content: "lo"}} and [DONE]
HelloStream ==
  <<Chunk("assistant", Str(Hel), Absent, <<>>),
    Chunk("", Str(Lo), Absent, <<>>), Line("done")>>

\* C18: the first message response of a stream carries no overwrite flag and
\* every later one carries overwrite with the whole accumulated text and the
\* whole attachment list; a data line is answered with a message response
\* exactly when it adds text, adds attachments or, before the first response,
\* carries a role; the chunks role+"Hel", "lo", [DONE] give exactly two
\* message responses, the second with overwrite and the text "Hello".
C18_FirstCreatesLaterOverwrite ==
  [][LET n == Len(chat.responses)
         emits == /\ Len(chat'.responses) = n + 1
                  /\ chat'.responses[n + 1].kind = "message"
         dataLine == chat.received[chat.applied + 1]
     IN /\ chat.pc = "processing" =>
             (emits <=> \/ chat'.assistantText # chat.assistantText
                        \/ chat'.assistantFileMap # chat.assistantFileMap
                        \/ /\ dataLine.kind = "chunk"
                           /\ dataLine.role # ""
                           /\ MessageResponses = {})
        /\ \A i \in (n + 1)..Len(chat'.responses) :
             chat'.responses[i].kind = "message" =>
               /\ chat'.responses[i].overwrite <=>
                    (\E j \in 1..(i - 1) : chat'.responses[j].kind = "message")
               /\ chat'.responses[i].text = chat'.assistantText
               /\ chat'.responses[i].files = assistantFiles(chat')
               /\ chat'.responses[i].role =
                    (IF chat'.assistantRole = "" THEN "assistant"
                     ELSE chat'.assistantRole)
        /\ (chat'.pc = "completed" /\ chat'.received = HelloStream) =>
             /\ Len(chat'.responses) = 3
             /\ chat'.responses[1].kind = "message"
             /\ ~chat'.responses[1].overwrite
             /\ chat'.responses[1].text = Hel
             /\ chat'.responses[2].kind = "message"
             /\ chat'.responses[2].overwrite
             /\ chat'.responses[2].text = Hel \o Lo
             /\ chat'.responses[3] = Response("completion")]_vars

\* the stream of the scenario has completed
C18_HelloCompleted ==
  /\ chat.pc = "completed"
  /\ chat.received = HelloStream
  /\ Cardinality(MessageResponses) = 2


\* a data line that is answered with a message: a chunk with content, a role
\* or attachments
Emitting(dataLine) ==
  /\ dataLine.kind = "chunk"
  /\ ContentText(dataLine) # <<>> \/ dataLine.role # "" \/ dataLine.atts # <<>>

ErrorResponse(message) == [Response("error") EXCEPT !.error = message]

\* C19: an {error: {message}} payload fails the stream at once with its
\* message (the default stream error message when the message is blank): no
\* later data line, [DONE] included, is taken, no message response and no
\* completion update follow, no message was sent at all when no chunk with
\* content, role or attachments came before, and the UI gets exactly one
\* error response, which carries the message.
C19_ErrorPayloadFailsStream ==
  [][LET dataLine == chat.received[chat.applied + 1]
     IN /\ (chat.pc = "processing" /\ dataLine.kind = "error") =>
             /\ chat'.pc = "failed"
             /\ chat'.applied = chat.applied + 1
             /\ chat'.assistantText = chat.assistantText
             /\ chat'.responses =
                  Append(chat.responses,
                         ErrorResponse(IF NotBlank(dataLine.err) THEN dataLine.err
                                       ELSE streamErrorMessage))
        /\ chat.pc = "failed" => chat' = chat
        /\ chat'.pc = "failed" =>
             /\ Cardinality({i \in 1..Len(chat'.responses) :
                               chat'.responses[i].kind = "error"}) = 1
             /\ chat'.responses[Len(chat'.responses)].kind = "error"
             /\ \A i \in 1..Len(chat'.responses) :
                  chat'.responses[i].kind # "completion"
             /\ (\A i \in 1..(chat'.applied - 1) : ~Emitting(chat'.received[i])) =>
                  \A i \in 1..Len(chat'.responses) :
                    chat'.responses[i].kind # "message"]_vars

\* the error payload "LLM provider error" followed by [DONE] in one event:
\* the stream failed with one error response and [DONE] was never taken
C19_ProviderErrorThenDone ==
  /\ chat.pc = "failed"
  /\ chat.received = <<ErrorLine(ProviderError), Line("done")>>
  /\ chat.applied = 1
  /\ chat.responses = <<ErrorResponse(ProviderError)>>


\* the data line processBuffer takes next repeats a chunk with attachments
\* that was applied before in this stream
DuplicateAttachments ==
  /\ chat.pc = "processing"
  /\ LET dataLine == chat.received[chat.applied + 1]
     IN /\ dataLine.kind = "chunk"
        /\ dataLine.atts # <<>>
        /\ \E i \in 1..chat.applied : chat.received[i] = dataLine

\* C20: applying the same attachments payload a second time in one stream
\* leaves the attachment set as it was after the first application and sends
\* no new message response, for attachments with an id and for attachments
\* without one (protected download URL, public URL or inline base64); every
\* download of a protected URL has succeeded.
C20_DuplicateAttachmentsIdempotent ==
  [][(DuplicateAttachments /\ ~chat'.dlFailed) =>
       /\ chat'.assistantFileMap = chat.assistantFileMap
       /\ chat'.responses = chat.responses]_vars


CompletionResponses ==
  {i \in 1..Len(chat.responses) : chat.responses[i].kind = "completion"}

\* C21: a stream that ended with [DONE] or with the end of the body has sent
\* exactly one empty completion update, as its last response, and only such a
\* stream has sent one; when text was accumulated, a message response with
\* the whole text came before it.
C21_OneCompletionLast ==
  /\ CompletionResponses # {} => chat.pc = "completed"
  /\ chat.pc = "completed" =>
       /\ CompletionResponses = {Len(chat.responses)}
       /\ chat.responses[Len(chat.responses)] = Response("completion")
       /\ chat.assistantText # <<>> =>
            \E i \in MessageResponses :
              /\ i < Len(chat.responses)
              /\ chat.responses[i].text = chat.assistantText

\* a stream with text that ended with the end of the body, without [DONE]
C21_ExhaustedWithText ==
  /\ chat.pc = "completed"
  /\ ~chat.streamingFinished
  /\ chat.assistantText # <<>>
  /\ chat.responses[Len(chat.responses)].kind = "completion"


ErrorResponses ==
  {i \in 1..Len(chat.responses) : chat.responses[i].kind = "error"}

SessionOf(s) ==
  <<s.accessTokenRef, s.refreshTokenRef, s.accessTokenExpiresAt,
    s.refreshTokenExpiresAt, s.profile, s.sessionStatus>>

\* this step fails the stream
StreamFails == chat.pc # "failed" /\ chat'.pc = "failed"

\* C23 as stated: when a stream fails, tokens, profile and session status are
\* what they were before the send, whatever the status of the response.
C23_StreamFailureKeepsSession ==
  [][(StreamFails /\ chat'.before.sent) =>
       SessionOf(store') = SessionOf(chat'.before.store)]_vars

\* C23, amended: the step that fails a stream changes nothing in the store;
\* after a failure whose fetch met no 401 and needed no refresh, tokens,
\* profile and status are what they were before the send; during a send the
\* session changes only where authorizedFetch refreshes the tokens or forces
\* the logout on a 401.
C23_OnlyTokenHandlingTouchesSession ==
  [][/\ StreamFails => store' = store
     /\ (/\ StreamFails
         /\ chat'.before.sent
         /\ fetcher.sent <= 1
         /\ fetcher.pc \in {"idle", "f_ok", "f_other"}
         /\ refresh.calls = chat'.before.calls) =>
          SessionOf(store') = SessionOf(chat'.before.store)
     /\ (chat.before.sent /\ SessionOf(store') # SessionOf(store)) =>
          lastOp'.op \in {"RefreshOk", "RefreshFail", "Fetch401Force",
                          "FetchRetryFail"}]_vars

\* an in-band error payload failed the stream of an authenticated user
C23_ErrorPayloadKeptSession ==
  /\ chat.pc = "failed"
  /\ chat.before.sent
  /\ chat.applied > 0
  /\ store.sessionStatus = "authenticated"
  /\ SessionOf(store) = SessionOf(chat.before.store)


\* every hydration requested so far has run its finally block
AllSettled ==
  \A h \in 1..Len(widget.hydrations) : widget.hydrations[h].settled

\* the object URLs a hydration created
CreatedBy(hydrationId) ==
  {u \in 1..Len(widget.created) :
     widget.created[u] = [by |-> "history", id |-> hydrationId]}

LiveHistoryUrls ==
  {u \in Live(widget) : widget.created[u].by = "history"}

\* C24: in a mounted widget, once every hydration requested has completed,
\* in whatever order, the history shown is the result of the hydration
\* requested last, the live history object URLs are exactly the ones that
\* hydration created, and every object URL of a superseded hydration is
\* revoked.
C24_LastRequestWins ==
  (widget.mounted /\ widget.historyHydrationToken > 0 /\ AllSettled) =>
    LET last == widget.historyHydrationToken
    IN /\ widget.hydratedHistory =
            [id |-> last, cloned |-> TRUE, files |-> widget.hydrations[last].files]
       /\ LiveHistoryUrls = CreatedBy(last)
       /\ widget.activeHistoryObjectUrls = CreatedBy(last)
       /\ \A h \in 1..(last - 1) : CreatedBy(h) \subseteq widget.revoked

\* the fetch of a superseded hydration resolved after the fetch of the last
\* one: its object URL is revoked and the one of the last hydration is live
C24_SupersededResolvedLater ==
  /\ widget.mounted
  /\ AllSettled
  /\ \E u, v \in 1..Len(widget.created) :
       /\ u > v
       /\ widget.created[u].by = "history"
       /\ widget.created[u].id < widget.historyHydrationToken
       /\ u \in widget.revoked
       /\ v \in CreatedBy(widget.historyHydrationToken)
       /\ v \in Live(widget)


\* nothing of the widget is in flight: every hydration has run its finally
\* block and every download of a streamed attachment has settled
Quiet ==
  /\ AllSettled
  /\ \A m \in 1..Len(widget.downloads) : widget.downloads[m] # "pending"

\* C25: once the chat component is discarded and the hydrations and fetches
\* that were in flight at teardown have completed, every object URL the
\* component created, for streamed attachments and for the history, is
\* revoked.
C25_TeardownRevokesAll ==
  (~widget.mounted /\ Quiet) => Live(widget) = {}

\* the files of the history handed to the chat element
HistoryFiles ==
  {widget.hydratedHistory.files[i] : i \in 1..Len(widget.hydratedHistory.files)}

\* C26: a protected attachment whose authorized fetch failed is omitted from
\* the hydrated history, as it is from a streamed message: no file of the
\* history shown has an unresolved protected URL as its src.
C26_NoProtectedSrcShown ==
  \A f \in HistoryFiles : f.kind # "protected"

\* C30: while the widget is mounted, every object URL in the history handed
\* to the chat element is in activeHistoryObjectUrls and is not revoked,
\* whatever the order of hydration requests, fetch completions and
\* supersessions.
C30_HistoryUrlsAreActive ==
  widget.mounted =>
    \A f \in HistoryFiles :
      f.kind = "blob" =>
        /\ f.n \in widget.activeHistoryObjectUrls
        /\ f.n \notin widget.revoked

\* a history with an object URL is shown after the URLs of an earlier
\* history and of a superseded hydration were revoked
C30_ShownAfterSupersession ==
  /\ widget.mounted
  /\ widget.historyHydrationToken = 3
  /\ \E f \in HistoryFiles : f.kind = "blob"
  /\ \E u \in widget.revoked : widget.created[u].id = 1
  /\ \E u \in widget.revoked : widget.created[u].id = 2


\* C27: a queue that is not empty implies isRefreshing; a request is put in
\* the queue only while isRefreshing is true; when isRefreshing becomes
\* false, after a refresh that succeeded or failed, the queue is empty and
\* every request that was in it has been reissued or rejected; the requests
\* waiting in the queue are exactly the ones the queue holds.
C27_QueueOnlyWhileRefreshing ==
  [][/\ gateway'.queue # <<>> => gateway'.isRefreshing
     /\ Len(gateway'.queue) > Len(gateway.queue) =>
          gateway.isRefreshing /\ gateway'.isRefreshing
     /\ (gateway.isRefreshing /\ ~gateway'.isRefreshing) =>
          /\ gateway'.queue = <<>>
          /\ \A r \in Range(gateway.queue) :
               reqs'[r].pc = (IF refresh.outcome = "ok" THEN "ri_run"
                              ELSE "rejRefresh")
     /\ \A r \in Reqs :
          reqs'[r].pc = "queued" <=> r \in Range(gateway'.queue)]_vars

\* the refresh failed with two requests in the queue: both were rejected
\* with the refresher and the queue is empty
C27_QueueRejected ==
  /\ ~gateway.isRefreshing
  /\ gateway.queue = <<>>
  /\ lastOp.op = "RefresherFail"
  /\ \A r \in Reqs : reqs[r].pc = "rejRefresh"


\* C28: after logout() has cleared the session and as long as login() has
\* not been called, no access or refresh token is stored and the status is
\* not authenticated, also when a refresh that was in flight at the logout
\* succeeds afterwards.
C28_LogoutStaysLoggedOut ==
  (logout.pc = "lo_done" /\ login.pc = "idle") =>
    /\ store.accessTokenRef = Null /\ store.refreshTokenRef = Null
    /\ store.lsAccessToken = Null /\ store.lsRefreshToken = Null
    /\ store.sessionStatus = "anonymous"

\* what was delivered of the body when the read loop ended
Delivered == SubSeq(wire.text, 1, wire.pos)

\* the same characters delivered by one read
InOneRead(text) == wireProcessBuffer([NewWire EXCEPT !.buffer = text])

RECURSIVE IsSuffix(_, _)
IsSuffix(t, u) ==
  \/ t = u
  \/ u # <<>> /\ IsSuffix(t, Tail(u))

\* C29: when the read loop of a stream has ended, the emissions, the
\* accumulated text and whether [DONE] was seen are those of the delivered
\* characters arriving in a single read, however the reads cut the text; and
\* without [DONE] what stays in the buffer is the end of the delivered text,
\* holds no event delimiter, and was not processed.
C29_SplitIndependent ==
  wire.pc = "done" =>
    /\ wire.emitted = InOneRead(Delivered).emitted
    /\ wire.assistantText = InOneRead(Delivered).assistantText
    /\ wire.streamingFinished = InOneRead(Delivered).streamingFinished
    /\ wire.buffer = InOneRead(Delivered).buffer
    /\ ~wire.streamingFinished =>
         /\ IsSuffix(wire.buffer, Delivered)
         /\ indexOfDelimiter(wire.buffer, 1) = 0

\* a stream completed by [DONE] after two emissions, with one read ending
\* between the two newlines of a delimiter and another inside a data line
C29_DelimiterAndLineSplit ==
  /\ wire.pc = "done" /\ wire.streamingFinished
  /\ Len(wire.emitted) = 2
  /\ \E c \in wire.cuts :
       c < wire.pos /\ wire.text[c] = NL /\ wire.text[c + 1] = NL
  /\ \E c \in wire.cuts :
       c < wire.pos /\ wire.text[c] # NL /\ wire.text[c + 1] # NL
====
